---- MODULE Spec2Model ----
(***************************************************************************)
(* A model of the prompt-toolkit template registry (TemplateRegistry.ts),  *)
(* of the part of the XML parser that builds the templates it stores, and  *)
(* of the prompt constructor (PromptConstructor.ts): interpolation of a    *)
(* template body and validation of a context.                              *)
(*                                                                         *)
(* A template is a JavaScript object: it is modelled as a function whose   *)
(* DOMAIN is the set of the object's own keys.  A key the object does not  *)
(* have is outside the DOMAIN; a key that is present with the value        *)
(* `undefined` is inside the DOMAIN with the value Undefined.  The object  *)
(* spread {...a, ...b} is then  b @@ a.                                    *)
(*                                                                         *)
(* Strings are modelled by naturals: 0 is the empty string (falsy), every  *)
(* other number is a distinct non-empty string.  Objects (contextLoading,  *)
(* taskDefinition, thinkingLevel) are modelled by positive naturals, which *)
(* are truthy as every object is; 0 is `undefined`.  The constructor reads *)
(* the body of a template and the values of a context: there a text is a   *)
(* sequence of tokens and a value carries its JavaScript type.             *)
(*                                                                         *)
(* The variable `constructed` holds the call of the constructor or of the  *)
(* parser that is about to be made or was made last, with its arguments    *)
(* and its result, and, where getResolved is followed from one await to    *)
(* the next, the calls of getResolved that are suspended.                  *)
(***************************************************************************)
EXTENDS Integers, Sequences, FiniteSets, TLC

VARIABLES templates, inheritanceCache, result, listed, constructed

vars == <<templates, inheritanceCache, result, listed, constructed>>

(* ------------------------------ bounds -------------------------------- *)

\* identifiers of templates are 1..NumIds
NumIds == 3

\* variable names that appear in `variables` lists are 1..NumVarNames
NumVarNames == 2

\* the longest `variables` list of a registered template
MaxVars == 1

\* distinct non-empty bodies
NumContents == 1

\* distinct non-empty bodies of the templates of a chain
NumBodies == 2

Ids == 1..NumIds

(* ------------------------------ values -------------------------------- *)

\* the value `undefined` of a key that is present, and the empty string
Undefined == 0

\* an object with no own keys; also the empty Map
EmptyRec == [k \in {} |-> 0]

\* obj.key || dflt  for a key that may be missing
GetOr(obj, key, dflt) ==
  IF key \in DOMAIN obj /\ obj[key] # Undefined THEN obj[key] ELSE dflt

\* obj.key || []  for the list-valued key `variables`
VariablesOf(obj) ==
  IF "variables" \in DOMAIN obj THEN obj["variables"] ELSE <<>>

\* obj.metadata || {}  (a metadata of `undefined` is the mapping with the one
\* key "undefined", which no document produces)
MetadataOf(obj) ==
  IF "metadata" \in DOMAIN obj /\ DOMAIN obj["metadata"] # {"undefined"}
  THEN obj["metadata"]
  ELSE EmptyRec

\* the set of the elements of a list
Range(s) == {s[i] : i \in 1..Len(s)}

\* obj without one key (the `delete` operator)
DeleteKey(obj, key) == [k \in DOMAIN obj \ {key} |-> obj[k]]

\* Map.set and Map.delete
MapSet(map, key, val) ==
  [k \in DOMAIN map \cup {key} |-> IF k = key THEN val ELSE map[k]]

MapDelete(map, key) == [k \in DOMAIN map \ {key} |-> map[k]]

(* ------------------------------ results ------------------------------- *)

\* success(data)
Success(data) ==
  [success |-> TRUE, kind |-> "none", names |-> <<>>, data |-> data]

\* failure(new Error(...)): the kind of message and the ids it names, in order
Failure(kind, names) ==
  [success |-> FALSE, kind |-> kind, names |-> names, data |-> EmptyRec]

(* ------------------------------ registry ------------------------------ *)

\* findDependentTemplates that stops at the first dependent it finds
findDependentTemplates_FirstOnly(tmpl, parentId) ==
  LET all == {id \in DOMAIN tmpl : GetOr(tmpl[id], "extends", 0) = parentId}
  IN {id \in all : \A other \in all : id <= other}

\* the ids of the stored templates whose `extends` is parentId.  The code
\* collects them in the Map's iteration order; no operation depends on that
\* order, so the model keeps the set.
findDependentTemplates(tmpl, parentId) ==
  {id \in DOMAIN tmpl : GetOr(tmpl[id], "extends", 0) = parentId}

\* a set of ids as a list (dependents.join(', ')), in ascending order
RECURSIVE SetToSeq(_)
SetToSeq(S) ==
  IF S = {} THEN <<>>
  ELSE LET m == CHOOSE x \in S : \A y \in S : x <= y
       IN <<m>> \o SetToSeq(S \ {m})

\* the while loop of checkCircularInheritance: currentId is the id the walk
\* stands on, visited the ids it has left behind, in the order it added them
RECURSIVE CircularWalk(_, _, _, _)
CircularWalk(tmpl, templateId, currentId, visited) ==
  IF currentId = 0 THEN Success(EmptyRec)
  ELSE IF currentId \in Range(visited)
    THEN Failure("CircularInheritance", visited \o <<currentId>>)
  ELSE IF currentId = templateId
    THEN Failure("InheritFromItself", <<templateId>>)
  ELSE IF currentId \notin DOMAIN tmpl
    THEN Failure("ParentNotFound", <<currentId>>)
  ELSE CircularWalk(tmpl, templateId, GetOr(tmpl[currentId], "extends", 0),
                    visited \o <<currentId>>)

\* checkCircularInheritance without the comparison of currentId with templateId
RECURSIVE CircularWalk_NoSelfCheck(_, _, _, _)
CircularWalk_NoSelfCheck(tmpl, templateId, currentId, visited) ==
  IF currentId = 0 THEN Success(EmptyRec)
  ELSE IF currentId \in Range(visited)
    THEN Failure("CircularInheritance", visited \o <<currentId>>)
  ELSE IF currentId \notin DOMAIN tmpl
    THEN Failure("ParentNotFound", <<currentId>>)
  ELSE CircularWalk_NoSelfCheck(tmpl, templateId,
                                GetOr(tmpl[currentId], "extends", 0),
                                visited \o <<currentId>>)

checkCircularInheritance_NoSelfCheck(tmpl, templateId, parentId) ==
  CircularWalk_NoSelfCheck(tmpl, templateId, parentId, <<>>)

checkCircularInheritance(tmpl, templateId, parentId) ==
  CircularWalk(tmpl, templateId, parentId, <<>>)

\* clearInheritanceCache: drops the entry of templateId and, recursively, of
\* every stored template that extends it.  `fuel` bounds the recursion where
\* the code would recurse without end (a cycle among the stored templates).
RECURSIVE ClearWalk(_, _, _, _)
ClearWalk(tmpl, cache, templateId, fuel) ==
  LET RECURSIVE Each(_, _)
      Each(c, deps) ==
        IF deps = {} THEN c
        ELSE LET d == CHOOSE x \in deps : \A y \in deps : x <= y
             IN Each(ClearWalk(tmpl, c, d, fuel - 1), deps \ {d})
  IN IF fuel = 0 THEN cache
     ELSE Each(MapDelete(cache, templateId),
               findDependentTemplates(tmpl, templateId))

\* clearInheritanceCache that drops the entries of templateId and of the
\* templates that extend it directly, and goes no further
clearInheritanceCache_OneLevel(tmpl, cache, templateId) ==
  [k \in DOMAIN cache \ ({templateId}
                          \cup findDependentTemplates(tmpl, templateId))
     |-> cache[k]]

clearInheritanceCache(tmpl, cache, templateId) ==
  ClearWalk(tmpl, cache, templateId, Cardinality(DOMAIN tmpl) + 2)

\* mergeTemplates that keeps the parent's body
mergeTemplates_ParentContent(parent, child) ==
  LET spread == ("content" :> parent["content"]) @@ child @@ parent
      withLists == ("variables" :> (VariablesOf(parent) \o VariablesOf(child)))
                   @@ ("metadata" :> (MetadataOf(child) @@ MetadataOf(parent)))
                   @@ spread
  IN DeleteKey(withLists, "extends")

\* mergeTemplates that lets the spread decide `variables`, as it does `name`
mergeTemplates_VariablesBySpread(parent, child) ==
  LET spread == child @@ parent
      withLists == ("metadata" :> (MetadataOf(child) @@ MetadataOf(parent)))
                   @@ spread
  IN DeleteKey(withLists, "extends")

\* mergeTemplates(parent, child)
mergeTemplates(parent, child) ==
  LET spread == child @@ parent
      withLists == ("variables" :> (VariablesOf(parent) \o VariablesOf(child)))
                   @@ ("metadata" :> (MetadataOf(child) @@ MetadataOf(parent)))
                   @@ spread
      Override(m, key) ==
        IF GetOr(child, key, Undefined) # Undefined
        THEN (key :> child[key]) @@ m
        ELSE m
      m1 == Override(withLists, "content")
      m2 == Override(m1, "contextLoading")
      m3 == Override(m2, "taskDefinition")
      m4 == Override(m3, "thinkingLevel")
  IN DeleteKey(m4, "extends")

\* get(id)
get(tmpl, id) ==
  IF id \notin DOMAIN tmpl THEN Failure("TemplateNotFound", <<id>>)
  ELSE Success(tmpl[id])

\* getResolved(id): the result and the cache the call leaves behind.  `fuel`
\* bounds the recursion where the code would recurse without end.
RECURSIVE ResolveWalk(_, _, _, _)
ResolveWalk(tmpl, cache, id, fuel) ==
  IF fuel = 0 THEN [res |-> Failure("Diverges", <<id>>), cache |-> cache]
  ELSE IF id \in DOMAIN cache THEN [res |-> Success(cache[id]), cache |-> cache]
  ELSE LET baseResult == get(tmpl, id)
       IN IF ~baseResult.success THEN [res |-> baseResult, cache |-> cache]
          ELSE LET base == baseResult.data
                   ext == GetOr(base, "extends", 0)
               IN IF ext = 0
                  THEN [res |-> Success(base), cache |-> MapSet(cache, id, base)]
                  ELSE LET p == ResolveWalk(tmpl, cache, ext, fuel - 1)
                       IN IF ~p.res.success
                          THEN [res |-> Failure("ResolveParentFailed",
                                                <<ext, id>> \o p.res.names),
                                cache |-> p.cache]
                          ELSE LET merged == mergeTemplates(p.res.data, base)
                               IN [res |-> Success(merged),
                                   cache |-> MapSet(p.cache, id, merged)]

\* getResolved that caches the stored template instead of the merged one
getResolved_CachesUnmerged(tmpl, cache, id) ==
  LET r == ResolveWalk(tmpl, cache, id, Cardinality(DOMAIN tmpl) + 2)
  IN IF r.res.success /\ id \notin DOMAIN cache
     THEN [res |-> r.res, cache |-> MapSet(r.cache, id, tmpl[id])]
     ELSE r

getResolved(tmpl, cache, id) ==
  ResolveWalk(tmpl, cache, id, Cardinality(DOMAIN tmpl) + 2)

\* register(template): the result of the call
registerResult(tmpl, template) ==
  IF template["id"] = 0 THEN Failure("IdRequired", <<>>)
  ELSE IF template["name"] = 0 THEN Failure("NameRequired", <<>>)
  ELSE IF template["content"] = 0 THEN Failure("ContentRequired", <<>>)
  ELSE IF GetOr(template, "extends", 0) # 0
    THEN checkCircularInheritance(tmpl, template["id"], template["extends"])
  ELSE Success(EmptyRec)

\* remove(id) without the check for dependents
removeResult_NoDependentsCheck(tmpl, id) ==
  IF id \notin DOMAIN tmpl THEN Failure("TemplateNotFound", <<id>>)
  ELSE Success(EmptyRec)

\* remove(id): the result of the call
removeResult(tmpl, id) ==
  IF id \notin DOMAIN tmpl THEN Failure("TemplateNotFound", <<id>>)
  ELSE LET dependents == findDependentTemplates(tmpl, id)
       IN IF dependents # {}
          THEN Failure("HasDependents", <<id>> \o SetToSeq(dependents))
          ELSE Success(EmptyRec)

(* ------------------------------- parser ------------------------------- *)

\* `undefined` as the value of the key `metadata`, whose defined values are
\* mappings: a mapping no document produces
UndefinedMetadata == "undefined" :> Undefined

\* parseXmlContent(content).  The document is given by what the regular
\* expressions of the parser find in it: doc.root says whether the root tag
\* matches, doc.id and doc.name are the root's attributes (0 when the
\* attribute is missing), doc.extends the <extends> element (0: none),
\* doc.variables the entries of <variables> (<<>>: no section), and
\* doc.contextLoading, doc.taskDefinition, doc.thinkingLevel, doc.metadata
\* the sections of those names (0: no such section).  The result is the
\* template, or "throws" for the Error parseXmlContent raises.
parseXmlContent(doc) ==
  LET root == IF doc.root THEN [id |-> doc.id, name |-> doc.name] ELSE EmptyRec
      ext == IF doc.extends # 0 THEN "extends" :> doc.extends ELSE EmptyRec
      template ==
        [variables |-> doc.variables,
         contextLoading |-> doc.contextLoading,
         taskDefinition |-> doc.taskDefinition,
         thinkingLevel |-> doc.thinkingLevel,
         content |-> doc.content,
         metadata |-> IF doc.metadata = 0 THEN UndefinedMetadata
                      ELSE "category" :> doc.metadata]
        @@ ext @@ root
  IN IF GetOr(template, "id", 0) = 0 \/ GetOr(template, "name", 0) = 0
        \/ template["content"] = 0
     THEN [throws |-> TRUE, template |-> EmptyRec]
     ELSE [throws |-> FALSE, template |-> template]

(* ------------------------------- inputs ------------------------------- *)

\* a key that is missing, or present with one of vals
Opt(key, vals) == {EmptyRec} \cup {key :> v : v \in vals}

\* the lists of variables of length at most MaxVars
VarLists ==
  UNION {[1..n -> 1..NumVarNames] : n \in 0..MaxVars}

\* templates supplied directly to register: every shape of the inheritance
\* link and of the variables list, and the ones register rejects outright
RegInputs ==
  {[id |-> i, name |-> 1, content |-> c] @@ e @@ v :
     i \in Ids, c \in 1..NumContents,
     e \in Opt("extends", Ids), v \in Opt("variables", VarLists)}
  \cup {[id |-> i, name |-> n, content |-> c] @@ e :
          i \in 0..1, n \in 0..1, c \in 0..1, e \in Opt("extends", {1})}

(* ------------------------------- actions ------------------------------ *)

\* what the last call was (its operation, the id it was about and, for
\* register, the `extends` of the template it was given) and what it returned
Outcome(op, id, ext, res) == [op |-> op, id |-> id, ext |-> ext, res |-> res]

\* the templates a call of list() returned that the caller still holds, by
\* id: `template` is the returned copy and `shared` says whether its nested
\* objects are still the ones of the stored template.  register and remove
\* replace or drop the stored object, which ends the sharing.
Unshare(l, id) ==
  [i \in DOMAIN l |-> IF i = id THEN [l[i] EXCEPT !.shared = FALSE] ELSE l[i]]

\* no call of the constructor yet
NotConstructed == [op |-> "none"]

Init ==
  /\ templates = EmptyRec
  /\ inheritanceCache = EmptyRec
  /\ result = Outcome("none", 0, 0, Success(EmptyRec))
  /\ listed = EmptyRec
  /\ constructed = NotConstructed

\* register that stores the template before it checks the inheritance chain
Register_StoreBeforeCheck(template) ==
  LET res == registerResult(templates, template)
      valid == template["id"] # 0 /\ template["name"] # 0
               /\ template["content"] # 0
  IN /\ result' = Outcome("register", template["id"],
                        GetOr(template, "extends", 0), res)
     /\ IF valid
        THEN /\ templates' = MapSet(templates, template["id"], template)
             /\ inheritanceCache' =
                  clearInheritanceCache(templates', inheritanceCache, template["id"])
             /\ listed' = Unshare(listed, template["id"])
        ELSE UNCHANGED <<templates, inheritanceCache, listed>>
     /\ UNCHANGED constructed

Register(template) ==
  LET res == registerResult(templates, template)
  IN /\ result' = Outcome("register", template["id"],
                        GetOr(template, "extends", 0), res)
     /\ IF res.success
        THEN /\ templates' = MapSet(templates, template["id"], template)
             /\ inheritanceCache' =
                  clearInheritanceCache(templates', inheritanceCache, template["id"])
             /\ listed' = Unshare(listed, template["id"])
        ELSE UNCHANGED <<templates, inheritanceCache, listed>>
     /\ UNCHANGED constructed

Remove(id) ==
  LET res == removeResult(templates, id)
  IN /\ result' = Outcome("remove", id, 0, res)
     /\ IF res.success
        THEN /\ templates' = MapDelete(templates, id)
             /\ inheritanceCache' =
                  clearInheritanceCache(templates', inheritanceCache, id)
             /\ listed' = Unshare(listed, id)
        ELSE UNCHANGED <<templates, inheritanceCache, listed>>
     /\ UNCHANGED constructed

GetResolved(id) ==
  LET r == getResolved(templates, inheritanceCache, id)
  IN /\ result' = Outcome("getResolved", id, 0, r.res)
     /\ inheritanceCache' = r.cache
     /\ UNCHANGED <<templates, listed, constructed>>

Next ==
  \/ \E template \in RegInputs : Register(template)
  \/ \E id \in Ids : Remove(id)
  \/ \E id \in Ids : GetResolved(id)

Spec == Init /\ [][Next]_vars

(* ------------- parent and child, supplied directly or parsed ---------- *)

\* a parent (id 1) and a child that extends it (id 2)
MergeIds == 1..(1 + 1)

\* the `extends` of the template with id i in that family: none for the parent
ParentIn(i) == i - 1

\* templates supplied directly: each of the optional sections is left out or
\* is an object of the template's own, here named by the template's id
DirectFor(i) ==
  {[id |-> i, name |-> 1, content |-> i] @@ e @@ cl @@ td @@ tl :
     e \in {IF ParentIn(i) = 0 THEN EmptyRec ELSE "extends" :> ParentIn(i)},
     cl \in Opt("contextLoading", {i}),
     td \in Opt("taskDefinition", {i}),
     tl \in Opt("thinkingLevel", {i})}

DirectInputs == UNION {DirectFor(i) : i \in MergeIds}

\* documents handed to parse(): each section is missing (0) or present
DocsFor(i) ==
  {[root |-> TRUE, id |-> i, name |-> 1, extends |-> ParentIn(i),
    variables |-> v, contextLoading |-> cl, taskDefinition |-> td,
    thinkingLevel |-> tl, content |-> i, metadata |-> 0] :
     v \in {<<>>, <<i>>}, cl \in {0, i}, td \in {0, i}, tl \in {0, i}}

\* a document with no body
DocWithoutContent ==
  [root |-> TRUE, id |-> 1, name |-> 1, extends |-> 0,
   variables |-> <<>>, contextLoading |-> 0, taskDefinition |-> 0,
   thinkingLevel |-> 0, content |-> 0, metadata |-> 0]

Docs == UNION {DocsFor(i) : i \in MergeIds} \cup {DocWithoutContent}

\* parse(document) and, as the callers of the parser do, register of the
\* template when parse succeeded
ParseAndRegister(doc) ==
  LET parsed == parseXmlContent(doc)
  IN IF parsed.throws
     THEN /\ result' = Outcome("parse", doc.id, doc.extends,
                               Failure("MissingRequiredFields", <<>>))
          /\ UNCHANGED <<templates, inheritanceCache, listed, constructed>>
     ELSE Register(parsed.template)

NextMerge ==
  \/ \E template \in DirectInputs : Register(template)
  \/ \E doc \in Docs : ParseAndRegister(doc)
  \/ \E id \in MergeIds : Remove(id)
  \/ \E id \in MergeIds : GetResolved(id)

SpecMerge == Init /\ [][NextMerge]_vars

(* ------------------- chains of templates with a body each ------------- *)

\* the templates of a chain: the template with id i has a body of its own
\* and extends the template with id i - 1, or nothing
BodiesFor(i) ==
  {[id |-> i, name |-> 1, content |-> c] @@ e :
     c \in 1..NumBodies, e \in Opt("extends", {i - 1} \ {0})}

BodyInputs == UNION {BodiesFor(i) : i \in Ids}

NextBodies ==
  \/ \E template \in BodyInputs : Register(template)
  \/ \E id \in Ids : Remove(id)
  \/ \E id \in Ids : GetResolved(id)

SpecBodies == Init /\ [][NextBodies]_vars

(* --------------------- inheritance, read off the Map ------------------ *)

\* the `extends` of a stored template, 0 when it has none
ExtendsOf(id) == GetOr(templates[id], "extends", 0)

\* the ids reached from the ids of S by following one `extends` pointer
ParentsOf(S) == {ExtendsOf(i) : i \in S \cap DOMAIN templates} \ {0}

\* the ids reached from the ids of S by following at most n pointers
RECURSIVE Reach(_, _)
Reach(S, n) == IF n = 0 THEN S ELSE Reach(S \cup ParentsOf(S), n - 1)

\* the ids reached from id by following one pointer or more
Ancestors(id) == Reach(ParentsOf({id}), NumIds)

\* C1: no stored template transitively extends itself: following `extends`
\* pointers through the stored templates from a stored id never returns to it
C1_NoTemplateExtendsItself ==
  \A id \in DOMAIN templates : id \notin Ancestors(id)

\* C1 witness: a register that would have closed a cycle of two templates or
\* more was rejected, and the chain it would have closed is stored
C1_Witness ==
  /\ result.op = "register"
  /\ ~result.res.success
  /\ result.id \in DOMAIN templates
  /\ result.ext # result.id
  /\ result.ext \in DOMAIN templates
  /\ result.id \in Ancestors(result.ext)

\* C2: every stored template whose `extends` is set names a stored id
C2_NoDanglingParent ==
  \A id \in DOMAIN templates :
    ExtendsOf(id) # 0 => ExtendsOf(id) \in DOMAIN templates

\* C2 witness: a template that another one extends has just been registered
\* again, or a template has just been removed while a child of another
\* template remains
C2_Witness ==
  /\ result.res.success
  /\ \/ /\ result.op = "register"
        /\ \E id \in DOMAIN templates : ExtendsOf(id) = result.id
        /\ ExtendsOf(result.id) # 0
     \/ /\ result.op = "remove"
        /\ \E id \in DOMAIN templates : ExtendsOf(id) # 0

\* the kinds of failure whose message reports an inheritance cycle
CircularKinds == {"CircularInheritance", "InheritFromItself"}

\* C3: from a registry that stores neither A nor B, register(A extends B)
\* followed by register(B extends A): the second register fails with a
\* circular-inheritance error and B is not stored afterwards
C3_SecondRegisterFailsCircular ==
  [][\A a \in Ids, b \in Ids :
       ( /\ a # b
         /\ a \notin DOMAIN templates
         /\ b \notin DOMAIN templates
         /\ result.op = "register" /\ result.id = a /\ result.ext = b
         /\ result'.op = "register" /\ result'.id = b /\ result'.ext = a )
       => ( /\ ~result'.res.success
            /\ result'.res.kind \in CircularKinds
            /\ b \notin DOMAIN templates' )]_vars

\* the ids on the cycle that storing a template id with `extends` ext would
\* close: the chain from ext back to id
CyclePath(id, ext) ==
  {i \in {ext} \cup Ancestors(ext) : i = id \/ id \in Ancestors(i)}

\* a register of a valid template was rejected and the chain of its
\* `extends` leads back to its own id
RejectedForCycle ==
  /\ result.op = "register"
  /\ ~result.res.success
  /\ result.res.kind \notin {"IdRequired", "NameRequired", "ContentRequired"}
  /\ result.ext # 0
  /\ result.id \in {result.ext} \cup Ancestors(result.ext)

\* C4: a register rejected because the chain of T.extends leads back to T's
\* own id fails with a circular-inheritance diagnostic that names every id
\* on the cycle
C4_CycleDiagnosticNamesPath ==
  RejectedForCycle =>
    /\ result.res.kind \in CircularKinds
    /\ CyclePath(result.id, result.ext) \subseteq Range(result.res.names)

\* C5: a register call that fails leaves the stored templates and the
\* resolved cache exactly as they were
C5_FailedRegisterChangesNothing ==
  [][(result'.op = "register" /\ ~result'.res.success)
       => UNCHANGED <<templates, inheritanceCache>>]_vars

\* C5 witness: a register has failed on a registry that holds templates and
\* resolved entries, for a missing parent or for a cycle
C5_Witness ==
  /\ result.op = "register"
  /\ ~result.res.success
  /\ result.res.kind \in {"ParentNotFound", "InheritFromItself"}
  /\ DOMAIN templates # {}
  /\ DOMAIN inheritanceCache # {}

\* the stored templates that name id in `extends`
DependentsOf(id) == {i \in DOMAIN templates : ExtendsOf(i) = id}

\* C6: remove(id) of a stored id that stored templates extend fails, names
\* every one of them, and changes neither the templates nor the cache
C6_RemoveWithDependentsRefused ==
  [][\A id \in DOMAIN templates :
       ( /\ result'.op = "remove" /\ result'.id = id
         /\ DependentsOf(id) # {} )
       => ( /\ ~result'.res.success
            /\ DependentsOf(id)
                 \subseteq Range(Tail(result'.res.names))
            /\ UNCHANGED <<templates, inheritanceCache>>
            /\ {id} \cup DependentsOf(id)
                 \subseteq DOMAIN templates' )]_vars

\* C6 witness: a remove was refused for a template with two dependents
C6_Witness ==
  /\ result.op = "remove"
  /\ ~result.res.success
  /\ result.res.kind = "HasDependents"
  /\ Cardinality(DependentsOf(result.id)) >= 2
  /\ DOMAIN inheritanceCache # {}

\* the length of the chain of `extends` pointers that starts at a stored id
RECURSIVE ChainLength(_, _)
ChainLength(id, fuel) ==
  IF fuel = 0 \/ id \notin DOMAIN templates THEN 0
  ELSE IF ExtendsOf(id) = 0 THEN 1
  ELSE 1 + ChainLength(ExtendsOf(id), fuel - 1)

\* the template that resolving id against the stored templates alone, with
\* no cache, produces
ResolvedFromScratch(id) == getResolved(templates, EmptyRec, id).res

\* C7: the resolved cache is never stale: every entry equals the template
\* obtained by resolving its id from scratch against the stored templates
C7_CacheNeverStale ==
  \A id \in DOMAIN inheritanceCache :
    /\ ResolvedFromScratch(id).success
    /\ inheritanceCache[id] = ResolvedFromScratch(id).data

\* C7 witness: a register has succeeded and left in the cache the merge of
\* an inheritance chain that it did not touch
C7_Witness ==
  /\ result.op = "register"
  /\ result.res.success
  /\ \E id \in DOMAIN inheritanceCache :
       /\ ChainLength(id, NumIds) >= 2
       /\ inheritanceCache[id] # templates[id]

\* C8: getResolved is idempotent: a second getResolved(id) right after the
\* first returns the same result, success or failure, field for field
C8_GetResolvedIdempotent ==
  result.op = "getResolved" =>
    getResolved(templates, inheritanceCache, result.id).res = result.res

\* C8 witness: a getResolved has just merged a chain and returned the merge
C8_Witness ==
  /\ result.op = "getResolved"
  /\ result.res.success
  /\ ChainLength(result.id, NumIds) >= 2
  /\ result.res.data # templates[result.id]

\* the variables lists along the chain of a stored id, root first
RECURSIVE ChainVariables(_, _)
ChainVariables(id, fuel) ==
  IF fuel = 0 \/ id \notin DOMAIN templates THEN <<>>
  ELSE IF ExtendsOf(id) = 0 THEN VariablesOf(templates[id])
  ELSE ChainVariables(ExtendsOf(id), fuel - 1) \o VariablesOf(templates[id])

\* the sum of the lengths of the variables lists along the chain
RECURSIVE ChainVariablesCount(_, _)
ChainVariablesCount(id, fuel) ==
  IF fuel = 0 \/ id \notin DOMAIN templates THEN 0
  ELSE IF ExtendsOf(id) = 0 THEN Len(VariablesOf(templates[id]))
  ELSE ChainVariablesCount(ExtendsOf(id), fuel - 1)
       + Len(VariablesOf(templates[id]))

\* C9: the variables of a resolved template are the concatenation of the
\* variables lists along its chain, root first, nothing dropped: the length
\* is the sum of the lengths, and a child with no variables has exactly the
\* resolved variables of its parent
C9_VariablesConcatenated ==
  (result.op = "getResolved" /\ result.res.success) =>
    LET id == result.id
        resolved == VariablesOf(result.res.data)
    IN /\ resolved = ChainVariables(id, NumIds)
       /\ Len(resolved) = ChainVariablesCount(id, NumIds)
       /\ (ExtendsOf(id) # 0 /\ VariablesOf(templates[id]) = <<>>) =>
            resolved = VariablesOf(
              getResolved(templates, inheritanceCache, ExtendsOf(id)).res.data)

\* C9 witness: a chain of three whose lists differ was resolved
C9_Witness ==
  /\ result.op = "getResolved"
  /\ result.res.success
  /\ ChainLength(result.id, NumIds) >= 3
  /\ Len(VariablesOf(result.res.data)) >= 2
  /\ \E i, j \in 1..Len(VariablesOf(result.res.data)) :
       VariablesOf(result.res.data)[i] # VariablesOf(result.res.data)[j]

\* the sections that a child overrides wholesale
OverriddenSections == {"contextLoading", "taskDefinition", "thinkingLevel"}

\* C10: in the resolved template each of contextLoading, taskDefinition and
\* thinkingLevel is the child's value when the child defines one, and the
\* parent's resolved value otherwise, for a child supplied directly and for
\* a child produced by parse()
C10_ChildSectionWinsElseParentKept ==
  (result.op = "getResolved" /\ result.res.success
     /\ result.id \in DOMAIN templates /\ ExtendsOf(result.id) # 0) =>
    LET child == templates[result.id]
        parent == getResolved(templates, inheritanceCache,
                              ExtendsOf(result.id)).res.data
    IN \A key \in OverriddenSections :
         GetOr(result.res.data, key, Undefined) =
           IF GetOr(child, key, Undefined) # Undefined
           THEN child[key]
           ELSE GetOr(parent, key, Undefined)

(* ------------------ list() and what its caller does next ------------- *)

\* a parent and a child, or two templates without a parent, each with a
\* nested variables list and a nested metadata mapping
ListInputs ==
  {[id |-> i, name |-> 1, content |-> 1, variables |-> <<>>,
    metadata |-> "category" :> 1] @@ e :
     i \in MergeIds, e \in Opt("extends", {1})}

\* list(): a new array of { ...t } for every stored t.  The copy is one level
\* deep: the nested objects of a returned template are those of the stored one.
List ==
  /\ listed' = [id \in DOMAIN templates |->
                  [template |-> templates[id], shared |-> TRUE]]
  /\ result' = Outcome("list", 0, 0,
                       Success([id \in DOMAIN templates |-> templates[id]]))
  /\ UNCHANGED <<templates, inheritanceCache, constructed>>

\* whether the entry the cache holds for id has the nested objects of the
\* stored template: getResolved caches the copy get() made for a template
\* without `extends`, and a newly merged object for any other
CacheSharesNested(id) ==
  id \in DOMAIN inheritanceCache /\ ExtendsOf(id) = 0

\* the object obj after an in-place change of the nested object under key
ChangeNested(obj, key, value) == (key :> value) @@ obj

\* an in-place change, by the caller, of a nested object of the returned
\* template of this id: every object that holds the nested object sees it
ChangeListedNested(id, key, value) ==
  /\ listed' = [listed EXCEPT
                  ![id].template = ChangeNested(listed[id].template, key, value)]
  /\ IF listed[id].shared
     THEN /\ templates' = [templates EXCEPT
                             ![id] = ChangeNested(templates[id], key, value)]
          /\ inheritanceCache' =
               IF CacheSharesNested(id)
               THEN [inheritanceCache EXCEPT
                       ![id] = ChangeNested(inheritanceCache[id], key, value)]
               ELSE inheritanceCache
     ELSE UNCHANGED <<templates, inheritanceCache>>
  /\ result' = Outcome("mutate", id, 0, Success(EmptyRec))
  /\ UNCHANGED constructed

\* the caller removes a template from the returned array
DropListed(id) ==
  /\ id \in DOMAIN listed
  /\ listed' = MapDelete(listed, id)
  /\ result' = Outcome("mutate", id, 0, Success(EmptyRec))
  /\ UNCHANGED <<templates, inheritanceCache, constructed>>

\* the caller assigns a property of a returned template
AssignListed(id, key, value) ==
  /\ id \in DOMAIN listed
  /\ listed' = [listed EXCEPT ![id].template = (key :> value) @@ listed[id].template]
  /\ result' = Outcome("mutate", id, 0, Success(EmptyRec))
  /\ UNCHANGED <<templates, inheritanceCache, constructed>>

\* the caller pushes a name onto the variables list of a returned template
PushListedVariable(id, name) ==
  /\ id \in DOMAIN listed
  /\ "variables" \in DOMAIN listed[id].template
  /\ Len(listed[id].template["variables"]) < MaxVars
  /\ ChangeListedNested(id, "variables",
                        Append(listed[id].template["variables"], name))

\* the caller sets a key of the metadata mapping of a returned template
SetListedMetadata(id, value) ==
  /\ id \in DOMAIN listed
  /\ "metadata" \in DOMAIN listed[id].template
  /\ ChangeListedNested(id, "metadata",
                        ("category" :> value) @@ listed[id].template["metadata"])

NextList ==
  \/ \E template \in ListInputs : Register(template)
  \/ \E id \in MergeIds : Remove(id)
  \/ \E id \in MergeIds : GetResolved(id)
  \/ List
  \/ \E id \in MergeIds : DropListed(id)
  \/ \E id \in MergeIds : AssignListed(id, "name", 2)
  \/ \E id \in MergeIds : PushListedVariable(id, 1)
  \/ \E id \in MergeIds : SetListedMetadata(id, 2)

SpecList == Init /\ [][NextList]_vars

(* ------------------- PromptConstructor: texts and values -------------- *)

\* A text (a template body, a string value, the output) is a sequence of
\* tokens.  A token is either a piece of text without braces, or one tag
\* {{...}} of the template syntax:
\*   k = "txt"      the characters n (an indivisible piece of text)
\*   k = "var"      {{n}}
\*   k = "if"       {{#if n}}                  k = "/if"        {{/if}}
\*   k = "each"     {{#each n}}                k = "/each"      {{/each}}
\*   k = "if_equals" {{#if_equals n "lit"}}    k = "/if_equals" {{/if_equals}}
\*   k = "switch"   {{#switch n}}              k = "/switch"    {{/switch}}
\*   k = "case"     {{#case "lit"}}            k = "/case"      {{/case}}
\* Two texts are the same string exactly when they are the same sequence:
\* the pieces used are single characters or words that no other piece is
\* a part of.  Each regular expression of the constructor matches whole tags
\* only, as [^}] cannot cross the end of a tag.
Token(k, n, lit) == [k |-> k, n |-> n, lit |-> lit]
Txt(s) == Token("txt", s, <<>>)
Var(n) == Token("var", n, <<>>)
If(n) == Token("if", n, <<>>)
EndIf == Token("/if", "", <<>>)
Each(n) == Token("each", n, <<>>)
EndEach == Token("/each", "", <<>>)
IfEquals(n, lit) == Token("if_equals", n, lit)
EndIfEquals == Token("/if_equals", "", <<>>)
Switch(n) == Token("switch", n, <<>>)
EndSwitch == Token("/switch", "", <<>>)
Case(lit) == Token("case", "", lit)
EndCase == Token("/case", "", <<>>)

\* whether a text has a {{ or a }} in it: a tag, or two braces in a row
HasBraces(text) ==
  \/ \E i \in 1..Len(text) : text[i].k # "txt"
  \/ \E i \in 1..(Len(text) - 1) :
       /\ text[i].n = text[i + 1].n
       /\ text[i].n \in {"{", "}"}

\* JavaScript values: ty is the type, and the field of that type holds the
\* value (b of a boolean, n of a number, text of a string, items of an array,
\* map of an object); the other fields are idle
Value(ty, b, n, text, items, map) ==
  [ty |-> ty, b |-> b, n |-> n, text |-> text, items |-> items, map |-> map]
Undef == Value("undefined", FALSE, 0, <<>>, <<>>, <<>>)
Null == Value("null", FALSE, 0, <<>>, <<>>, <<>>)
Bool(b) == Value("boolean", b, 0, <<>>, <<>>, <<>>)
Num(n) == Value("number", FALSE, n, <<>>, <<>>, <<>>)
Str(text) == Value("string", FALSE, 0, text, <<>>, <<>>)
Arr(items) == Value("array", FALSE, 0, <<>>, items, <<>>)
Obj(map) == Value("object", FALSE, 0, <<>>, <<>>, map)

\* variables[name]
Lookup(variables, name) ==
  IF name \in DOMAIN variables THEN variables[name] ELSE Undef

\* the texts of a sequence of texts, joined by sep
RECURSIVE Join(_, _)
Join(texts, sep) ==
  IF Len(texts) = 0 THEN <<>>
  ELSE IF Len(texts) = 1 THEN texts[1]
  ELSE texts[1] \o sep \o Join(Tail(texts), sep)

Digits == <<"0", "1", "2", "3", "4", "5", "6", "7", "8", "9">>

\* String(n) of an integer
RECURSIVE NumberToString(_)
NumberToString(n) ==
  IF n < 0 THEN <<Txt("-")>> \o NumberToString(0 - n)
  ELSE IF n < 10 THEN <<Txt(Digits[n + 1])>>
  ELSE NumberToString(n \div 10) \o <<Txt(Digits[(n % 10) + 1])>>

\* String(value)
RECURSIVE StringOf(_)
StringOf(value) ==
  CASE value.ty = "undefined" -> <<Txt("undefined")>>
    [] value.ty = "null" -> <<Txt("null")>>
    [] value.ty = "boolean" -> IF value.b THEN <<Txt("true")>> ELSE <<Txt("false")>>
    [] value.ty = "number" -> NumberToString(value.n)
    [] value.ty = "string" -> value.text
    [] value.ty = "array" ->
         Join([i \in 1..Len(value.items) |->
                 IF value.items[i].ty \in {"undefined", "null"} THEN <<>>
                 ELSE StringOf(value.items[i])], <<Txt(",")>>)
    [] value.ty = "object" -> <<Txt("[object Object]")>>

\* the keys of an object as JSON.stringify writes them; the order of
\* insertion is not modelled, and is immaterial for the objects of at most
\* one key that are used
RECURSIVE KeySeq(_)
KeySeq(S) ==
  IF S = {} THEN <<>>
  ELSE LET x == CHOOSE y \in S : TRUE
       IN <<x>> \o KeySeq(S \ {x})

\* n spaces of indentation
RECURSIVE Spaces(_)
Spaces(n) == IF n = 0 THEN <<>> ELSE <<Txt(" ")>> \o Spaces(n - 1)

\* JSON.stringify(value): the form without line breaks and indentation
RECURSIVE Stringify_Compact(_, _)
Stringify_Compact(value, depth) ==
  CASE value.ty \in {"undefined", "null"} -> <<Txt("null")>>
    [] value.ty \in {"boolean", "number"} -> StringOf(value)
    [] value.ty = "string" -> <<Txt("\"")>> \o value.text \o <<Txt("\"")>>
    [] value.ty = "array" ->
         <<Txt("[")>>
         \o Join([i \in 1..Len(value.items) |->
                    Stringify_Compact(value.items[i], depth + 1)], <<Txt(",")>>)
         \o <<Txt("]")>>
    [] value.ty = "object" ->
         LET keys == KeySeq({key \in DOMAIN value.map :
                               value.map[key].ty # "undefined"})
         IN <<Txt("{")>>
            \o Join([i \in 1..Len(keys) |->
                       <<Txt("\""), Txt(keys[i]), Txt("\""), Txt(":")>>
                       \o Stringify_Compact(value.map[keys[i]], depth + 1)],
                    <<Txt(",")>>)
            \o <<Txt("}")>>

\* JSON.stringify(value, null, 2) at a nesting depth; strings of the model
\* have no character that JSON escapes
RECURSIVE Stringify(_, _)
Stringify(value, depth) ==
  CASE value.ty \in {"undefined", "null"} -> <<Txt("null")>>
    [] value.ty \in {"boolean", "number"} -> StringOf(value)
    [] value.ty = "string" -> <<Txt("\"")>> \o value.text \o <<Txt("\"")>>
    [] value.ty = "array" ->
         IF Len(value.items) = 0 THEN <<Txt("["), Txt("]")>>
         ELSE <<Txt("["), Txt("\n")>>
              \o Join([i \in 1..Len(value.items) |->
                         Spaces(2 * (depth + 1)) \o Stringify(value.items[i], depth + 1)],
                      <<Txt(","), Txt("\n")>>)
              \o <<Txt("\n")>> \o Spaces(2 * depth) \o <<Txt("]")>>
    [] value.ty = "object" ->
         LET keys == KeySeq({key \in DOMAIN value.map : value.map[key].ty # "undefined"})
         IN IF Len(keys) = 0 THEN <<Txt("{"), Txt("}")>>
            ELSE <<Txt("{"), Txt("\n")>>
                 \o Join([i \in 1..Len(keys) |->
                            Spaces(2 * (depth + 1))
                            \o <<Txt("\""), Txt(keys[i]), Txt("\""), Txt(":"), Txt(" ")>>
                            \o Stringify(value.map[keys[i]], depth + 1)],
                         <<Txt(","), Txt("\n")>>)
                 \o <<Txt("\n")>> \o Spaces(2 * depth) \o <<Txt("}")>>

\* formatValue(value)
RECURSIVE formatValue(_)
formatValue(value) ==
  CASE value.ty = "string" -> value.text
    [] value.ty \in {"number", "boolean"} -> StringOf(value)
    [] value.ty = "array" ->
         Join([i \in 1..Len(value.items) |-> formatValue(value.items[i])],
              <<Txt(","), Txt(" ")>>)
    [] value.ty = "object" -> Stringify(value, 0)
    [] OTHER -> StringOf(value)

\* isTruthy that follows the truthiness of the language, in which an empty
\* array is truthy
isTruthy_OfTheLanguage(value) ==
  CASE value.ty \in {"undefined", "null"} -> FALSE
    [] value.ty = "boolean" -> value.b
    [] value.ty = "number" -> value.n # 0
    [] value.ty = "string" -> Len(value.text) > 0
    [] OTHER -> TRUE

\* isTruthy(value)
isTruthy(value) ==
  CASE value.ty \in {"undefined", "null"} -> FALSE
    [] value.ty = "boolean" -> value.b
    [] value.ty = "number" -> value.n # 0
    [] value.ty = "string" -> Len(value.text) > 0
    [] value.ty = "array" -> Len(value.items) > 0
    [] OTHER -> TRUE

\* value || '' of JavaScript: the value when it is truthy by the language's
\* own rule (an empty array is), the empty string otherwise
OrEmptyString(value) ==
  IF \/ value.ty \in {"undefined", "null"}
     \/ (value.ty = "boolean" /\ ~value.b)
     \/ (value.ty = "number" /\ value.n = 0)
     \/ (value.ty = "string" /\ Len(value.text) = 0)
  THEN Str(<<>>)
  ELSE value

(* ------------------- PromptConstructor: interpolation ----------------- *)

\* what a stage of the interpolation yields: the text, the warnings it
\* logged, in order, and whether it ran out of stack
Yield(out, warns, throws) == [out |-> out, warns |-> warns, throws |-> throws]

\* logger.warn(`Variable '...' is undefined during interpolation`), for the
\* tag whose inner text was looked up
WarnUndefined(token) == [kind |-> "undefined", of |-> token]

\* logger.warn(`Variable '...' is not an array for #each loop`)
WarnNotArray(token) == [kind |-> "notArray", of |-> token]

\* the value the first replace of interpolateVariables looks up for a tag:
\* its regular expression matches every tag, and the inner text of a tag
\* other than {{name}} ("#if a", "/if", ...) is no key of a context
TagValue(token, variables) ==
  IF token.k = "var" THEN Lookup(variables, token.n) ELSE Undef

\* the first replace that drops a tag whose value is undefined or null
RECURSIVE SimplePass_DropsUndefined(_, _)
SimplePass_DropsUndefined(content, variables) ==
  IF Len(content) = 0 THEN Yield(<<>>, <<>>, FALSE)
  ELSE LET token == Head(content)
           rest == SimplePass_DropsUndefined(Tail(content), variables)
       IN IF token.k = "txt"
          THEN Yield(<<token>> \o rest.out, rest.warns, FALSE)
          ELSE IF token.k # "var"
          THEN Yield(<<token>> \o rest.out,
                     <<WarnUndefined(token)>> \o rest.warns, FALSE)
          ELSE IF TagValue(token, variables).ty \in {"undefined", "null"}
          THEN Yield(rest.out, <<WarnUndefined(token)>> \o rest.warns, FALSE)
          ELSE Yield(formatValue(TagValue(token, variables)) \o rest.out,
                     rest.warns, FALSE)

\* the first replace of interpolateVariables: every tag whose value is
\* neither undefined nor null is replaced by formatValue of the value
RECURSIVE SimplePass(_, _)
SimplePass(content, variables) ==
  IF Len(content) = 0 THEN Yield(<<>>, <<>>, FALSE)
  ELSE LET token == Head(content)
           rest == SimplePass(Tail(content), variables)
       IN IF token.k = "txt"
          THEN Yield(<<token>> \o rest.out, rest.warns, FALSE)
          ELSE IF TagValue(token, variables).ty \in {"undefined", "null"}
          THEN Yield(<<token>> \o rest.out,
                     <<WarnUndefined(token)>> \o rest.warns, FALSE)
          ELSE Yield(formatValue(TagValue(token, variables)) \o rest.out,
                     rest.warns, FALSE)

\* the first position from `from` on of a token of kind k, 0 when none
FirstIndex(content, from, k) ==
  IF \E i \in from..Len(content) : content[i].k = k
  THEN CHOOSE i \in from..Len(content) :
         /\ content[i].k = k
         /\ \A j \in from..(i - 1) : content[j].k # k
  ELSE 0

\* the closing tag of an opening tag
Closing(k) == IF k = "case" THEN "/case" ELSE
              IF k = "if" THEN "/if" ELSE
              IF k = "each" THEN "/each" ELSE
              IF k = "if_equals" THEN "/if_equals" ELSE "/switch"

\* the stack the recursion of interpolateVariables may use
MaxDepth == 6

RECURSIVE interpolateAt(_, _, _)
RECURSIVE ReplaceBlocks(_, _, _, _)
RECURSIVE EachItems(_, _, _, _, _)
RECURSIVE FirstCase(_, _, _, _)

\* array.map((item, index) => interpolateVariables(template, itemContext))
\* .join(''), from the item at position `index` on (position 1 is index 0)
EachItems(template, array, index, variables, fuel) ==
  IF index > Len(array) THEN Yield(<<>>, <<>>, FALSE)
  ELSE LET itemContext ==
             ("this" :> array[index])
             @@ ("@index" :> Num(index - 1))
             @@ ("@first" :> Bool(index = 1))
             @@ ("@last" :> Bool(index = Len(array)))
             @@ variables
           item == interpolateAt(template, itemContext, fuel)
           rest == EachItems(template, array, index + 1, variables, fuel)
       IN Yield(item.out \o rest.out, item.warns \o rest.warns,
                item.throws \/ rest.throws)

\* the while loop of processSwitchStatements over the cases of a switch
FirstCase(switchContent, value, variables, fuel) ==
  LET i == FirstIndex(switchContent, 1, "case")
      j == IF i = 0 THEN 0 ELSE FirstIndex(switchContent, i + 1, "/case")
  IN IF i = 0 \/ j = 0 THEN Yield(<<>>, <<>>, FALSE)
     ELSE IF value = switchContent[i].lit
     THEN interpolateAt(SubSeq(switchContent, i + 1, j - 1), variables, fuel)
     ELSE FirstCase(SubSeq(switchContent, j + 1, Len(switchContent)),
                    value, variables, fuel)

\* the replacement in which {{#if_equals}} takes the string of its value
\* as {{#switch}} does
BlockReplacement_EqualsAsSwitch(open, inner, variables, fuel) ==
  LET value == Lookup(variables, open.n)
  IN CASE open.k = "if" ->
            IF isTruthy(value) THEN interpolateAt(inner, variables, fuel)
            ELSE Yield(<<>>, <<>>, FALSE)
       [] open.k = "each" ->
            IF value.ty # "array"
            THEN Yield(<<>>, <<WarnNotArray(open)>>, FALSE)
            ELSE EachItems(inner, value.items, 1, variables, fuel)
       [] open.k = "if_equals" ->
            IF StringOf(OrEmptyString(value)) = open.lit
            THEN interpolateAt(inner, variables, fuel)
            ELSE Yield(<<>>, <<>>, FALSE)
       [] open.k = "switch" ->
            FirstCase(inner, StringOf(OrEmptyString(value)), variables, fuel)

\* the replacement the callback of a block stage returns for one match
BlockReplacement(open, inner, variables, fuel) ==
  LET value == Lookup(variables, open.n)
  IN CASE open.k = "if" ->
            IF isTruthy(value) THEN interpolateAt(inner, variables, fuel)
            ELSE Yield(<<>>, <<>>, FALSE)
       [] open.k = "each" ->
            IF value.ty # "array"
            THEN Yield(<<>>, <<WarnNotArray(open)>>, FALSE)
            ELSE EachItems(inner, value.items, 1, variables, fuel)
       [] open.k = "if_equals" ->
            IF StringOf(value) = open.lit
            THEN interpolateAt(inner, variables, fuel)
            ELSE Yield(<<>>, <<>>, FALSE)
       [] open.k = "switch" ->
            FirstCase(inner, StringOf(OrEmptyString(value)), variables, fuel)

\* content.replace(regex, callback) of a block stage: each match runs from
\* an opening tag to the first closing tag after it, the matches are found
\* from left to right and do not overlap
ReplaceBlocks(k, content, variables, fuel) ==
  LET i == FirstIndex(content, 1, k)
      j == IF i = 0 THEN 0 ELSE FirstIndex(content, i + 1, Closing(k))
  IN IF i = 0 \/ j = 0 THEN Yield(content, <<>>, FALSE)
     ELSE LET r == BlockReplacement(content[i], SubSeq(content, i + 1, j - 1),
                                    variables, fuel)
              rest == ReplaceBlocks(k, SubSeq(content, j + 1, Len(content)),
                                    variables, fuel)
          IN Yield(SubSeq(content, 1, i - 1) \o r.out \o rest.out,
                   r.warns \o rest.warns, r.throws \/ rest.throws)

\* interpolateVariables(content, variables) with `fuel` frames of stack left
interpolateAt(content, variables, fuel) ==
  IF fuel = 0 THEN Yield(<<>>, <<>>, TRUE)
  ELSE LET s0 == SimplePass(content, variables)
           s1 == ReplaceBlocks("if", s0.out, variables, fuel - 1)
           s2 == ReplaceBlocks("each", s1.out, variables, fuel - 1)
           s3 == ReplaceBlocks("if_equals", s2.out, variables, fuel - 1)
           s4 == ReplaceBlocks("switch", s3.out, variables, fuel - 1)
       IN Yield(s4.out,
                s0.warns \o s1.warns \o s2.warns \o s3.warns \o s4.warns,
                s1.throws \/ s2.throws \/ s3.throws \/ s4.throws)

\* interpolateVariables(content, variables)
interpolateVariables(content, variables) ==
  interpolateAt(content, variables, MaxDepth)

(* ------------------- PromptConstructor: validation -------------------- *)

\* a declared variable of a template
VariableSpec(name, type, required) ==
  [name |-> name, type |-> type, required |-> required]

\* an entry of the errors or of the warnings of a validation result: what
\* it is about, and for a type mismatch the two types its message names
Finding(type, name, expected, actual) ==
  [type |-> type, name |-> name, expected |-> expected, actual |-> actual]

\* Array.isArray(value) ? 'array' : typeof value
ActualType(value) ==
  IF value.ty = "null" THEN "object" ELSE value.ty

\* validateVariableType(name, value, expectedType): the errors it adds
validateVariableType(name, value, expectedType) ==
  IF expectedType = "object" /\ value.ty = "object" THEN <<>>
  ELSE IF ActualType(value) # expectedType
  THEN <<Finding("semantic", name, expectedType, ActualType(value))>>
  ELSE <<>>

\* the first loop that ends at the first required variable that is missing
RECURSIVE VariableErrors_StopsAtFirstMissing(_, _, _)
VariableErrors_StopsAtFirstMissing(declared, variables, i) ==
  IF i > Len(declared) THEN <<>>
  ELSE LET variable == declared[i]
           value == Lookup(variables, variable.name)
           missing == value.ty \in {"undefined", "null"}
       IN IF variable.required /\ missing
          THEN <<Finding("missing_variable", variable.name, "", "")>>
          ELSE (IF ~missing
                THEN validateVariableType(variable.name, value, variable.type)
                ELSE <<>>)
               \o VariableErrors_StopsAtFirstMissing(declared, variables, i + 1)

\* the first loop of validateContext, from the declaration at position i on
RECURSIVE VariableErrors(_, _, _)
VariableErrors(declared, variables, i) ==
  IF i > Len(declared) THEN <<>>
  ELSE LET variable == declared[i]
           value == Lookup(variables, variable.name)
           missing == value.ty \in {"undefined", "null"}
       IN (IF variable.required /\ missing
           THEN <<Finding("missing_variable", variable.name, "", "")>>
           ELSE IF ~missing
           THEN validateVariableType(variable.name, value, variable.type)
           ELSE <<>>)
          \o VariableErrors(declared, variables, i + 1)

\* the second loop of validateContext: a warning for every entry of the
\* context that no declaration names and whose value is not undefined
ExtraWarnings(declared, variables) ==
  LET extra == {name \in DOMAIN variables :
                  /\ \A i \in 1..Len(declared) : declared[i].name # name
                  /\ variables[name].ty # "undefined"}
      names == KeySeq(extra)
  IN [i \in 1..Len(names) |-> Finding("semantic", names[i], "", "")]

\* validateContext(template, context): the data of the result
validateContext(template, variables) ==
  IF "variables" \notin DOMAIN template
  THEN [valid |-> TRUE, errors |-> <<>>, warnings |-> <<>>]
  ELSE LET errors == VariableErrors(template["variables"], variables, 1)
       IN [valid |-> Len(errors) = 0,
           errors |-> errors,
           warnings |-> ExtraWarnings(template["variables"], variables)]

(* ------------------- PromptConstructor: construction ------------------ *)

\* constructFromTemplate(template, context, options): whether it succeeded,
\* the content of the constructed prompt, and the warnings logged on the way
constructFromTemplate(template, variables, validateVariables) ==
  LET validation == validateContext(template, variables)
      r == interpolateVariables(template["content"], variables)
  IN IF validateVariables /\ ~validation.valid
     THEN [success |-> FALSE, content |-> <<>>, warns |-> <<>>]
     ELSE IF r.throws
     THEN [success |-> FALSE, content |-> <<>>, warns |-> r.warns]
     ELSE [success |-> TRUE, content |-> r.out, warns |-> r.warns]

(* ------------------- PromptConstructor: inputs ------------------------ *)

\* the values a context gives the name a directive tests
PlainValues ==
  {Undef, Null, Bool(TRUE), Bool(FALSE), Num(0), Num(1), Num(12),
   Str(<<>>), Str(<<Txt("P")>>), Str(<<Txt("0")>>),
   Arr(<<>>), Arr(<<Str(<<Txt("P")>>), Str(<<Txt("Q")>>)>>), Arr(<<Num(0)>>),
   Obj(EmptyRec), Obj("k" :> Num(1))}

\* contexts: "a" is the name the directives test, "b" the name of an inner
\* conditional, "x" a name the bodies refer to, and "this" an outer binding
\* of the name the loop gives its current item
Contexts ==
  {a @@ b @@ x @@ t :
     a \in Opt("a", PlainValues),
     b \in Opt("b", {Bool(TRUE)}),
     x \in Opt("x", {Null, Str(<<Txt("V")>>)}),
     t \in Opt("this", {Str(<<Txt("T")>>)})}

\* what stands between the opening and the closing tag of a block
Bodies ==
  {<<>>, <<Txt("X")>>, <<Var("x")>>, <<Txt("X"), Var("x"), Txt("Y")>>,
   <<Txt("-"), Var("this"), Txt("\n")>>}

\* the literals of {{#if_equals}} and {{#case}}
Literals ==
  {<<Txt("P")>>, <<Txt("p")>>, <<Txt("0")>>, <<Txt("false")>>, <<Txt("undefined")>>}

IfBlock(name, body) == <<If(name)>> \o body \o <<EndIf>>
EachBlock(name, body) == <<Each(name)>> \o body \o <<EndEach>>
IfEqualsBlock(name, lit, body) == <<IfEquals(name, lit)>> \o body \o <<EndIfEquals>>
CaseBlock(lit, body) == <<Case(lit)>> \o body \o <<EndCase>>
SwitchBlock(name, cases) == <<Switch(name)>> \o cases \o <<EndSwitch>>

\* {{#if a}}X{{#if b}}Y{{/if}}Z{{/if}}
NestedIf ==
  IfBlock("a", <<Txt("X")>> \o IfBlock("b", <<Txt("Y")>>) \o <<Txt("Z")>>)

\* the bodies of the templates handed to the constructor
Contents ==
  {IfBlock("a", body) : body \in Bodies}
  \cup {EachBlock("a", body) : body \in Bodies}
  \cup {IfEqualsBlock("a", lit, body) : lit \in Literals, body \in Bodies}
  \cup {SwitchBlock("a", CaseBlock(l1, <<Txt("X"), Var("x")>>)
                         \o CaseBlock(l2, <<Txt("Y")>>)) :
          l1 \in Literals, l2 \in Literals}
  \cup {NestedIf}
  \cup {<<Txt("X"), Var("x"), Txt("Y")>>, <<Var("x"), Var("a")>>}

\* templates handed to the constructor, with and without declared variables
ConstructInputs ==
  {[id |-> 1, name |-> 1, content |-> c] @@ v :
     c \in Contents,
     v \in Opt("variables", {<<VariableSpec("x", "string", TRUE)>>})}

(* ------------------- PromptConstructor: actions ----------------------- *)

\* a call of the constructor that is about to be made
Pending(template, variables, validateVariables) ==
  [op |-> "pending", template |-> template, variables |-> variables,
   validateVariables |-> validateVariables]

\* an empty registry and one call of constructFromTemplate to make
InitConstruct ==
  /\ templates = EmptyRec
  /\ inheritanceCache = EmptyRec
  /\ result = Outcome("none", 0, 0, Success(EmptyRec))
  /\ listed = EmptyRec
  /\ constructed \in
       {Pending(template, variables, validateVariables) :
          template \in ConstructInputs, variables \in Contexts,
          validateVariables \in BOOLEAN}

\* constructFromTemplate(template, context, options)
ConstructFromTemplate ==
  /\ constructed.op = "pending"
  /\ constructed' =
       [op |-> "constructFromTemplate", template |-> constructed.template,
        variables |-> constructed.variables,
        validateVariables |-> constructed.validateVariables,
        res |-> constructFromTemplate(constructed.template,
                                      constructed.variables,
                                      constructed.validateVariables)]
  /\ UNCHANGED <<templates, inheritanceCache, result, listed>>

NextConstruct == ConstructFromTemplate

\* the values a context gives a name that a body refers to: the plain ones,
\* strings that hold a tag themselves, alone or inside a list or a mapping,
\* and a mapping inside a mapping
ReferencedValues ==
  PlainValues
  \cup {Str(<<Var("y")>>), Arr(<<Str(<<Var("y")>>)>>),
        Obj("k" :> Str(<<Var("y")>>)), Obj("k" :> Obj(EmptyRec))}

\* bodies with references of the form {{name}} only
SimpleContents ==
  UNION {[1..n -> {Txt("X"), Var("x"), Var("y")}] : n \in 1..3}

SimpleContexts ==
  {x @@ y : x \in Opt("x", ReferencedValues), y \in Opt("y", ReferencedValues)}

\* an empty registry and one call of constructFromTemplate for a body with
\* simple references only
InitSimple ==
  /\ templates = EmptyRec
  /\ inheritanceCache = EmptyRec
  /\ result = Outcome("none", 0, 0, Success(EmptyRec))
  /\ listed = EmptyRec
  /\ constructed \in
       {Pending([id |-> 1, name |-> 1, content |-> content], variables, FALSE) :
          content \in SimpleContents, variables \in SimpleContexts}

SpecConstruct == InitConstruct /\ [][NextConstruct]_vars

SpecSimple == InitSimple /\ [][NextConstruct]_vars

(* ------------- validation of a context against a template ------------ *)

\* the variables lists of the templates that are validated against
VarSpecLists ==
  {<<>>,
   <<VariableSpec("x", "string", TRUE)>>,
   <<VariableSpec("x", "string", FALSE)>>,
   <<VariableSpec("x", "string", TRUE), VariableSpec("y", "string", TRUE)>>}

\* a parent and a child, or two templates without a parent, with declared
\* variables
ValidateInputs ==
  {[id |-> i, name |-> 1, content |-> 1] @@ e @@ v :
     i \in MergeIds, e \in Opt("extends", {1}),
     v \in Opt("variables", VarSpecLists)}

ValidateContexts ==
  {x @@ y : x \in Opt("x", {Null, Str(<<Txt("V")>>), Num(1)}),
            y \in Opt("y", {Str(<<Txt("W")>>)})}

\* validateContext(template, context) for a template supplied directly
ValidateContext(template, variables) ==
  /\ constructed.op = "none"
  /\ constructed' =
       [op |-> "validateContext", from |-> "caller", template |-> template,
        variables |-> variables, res |-> validateContext(template, variables)]
  /\ UNCHANGED <<templates, inheritanceCache, result, listed>>

\* getResolved(id) and, when it succeeded, validateContext(its data, context)
ValidateResolved(id, variables) ==
  LET r == getResolved(templates, inheritanceCache, id)
  IN /\ constructed.op = "none"
     /\ r.res.success
     /\ result' = Outcome("getResolved", id, 0, r.res)
     /\ inheritanceCache' = r.cache
     /\ constructed' =
          [op |-> "validateContext", from |-> "getResolved",
           template |-> r.res.data, variables |-> variables,
           res |-> validateContext(r.res.data, variables)]
     /\ UNCHANGED <<templates, listed>>

\* the registry is filled and read until a context is validated, which is
\* the last call of a behaviour
NextValidate ==
  \/ /\ constructed.op = "none"
     /\ \/ \E template \in ValidateInputs : Register(template)
        \/ \E id \in MergeIds : Remove(id)
        \/ \E id \in MergeIds : GetResolved(id)
  \/ \E template \in ValidateInputs, variables \in ValidateContexts :
       ValidateContext(template, variables)
  \/ \E id \in MergeIds, variables \in ValidateContexts :
       ValidateResolved(id, variables)

SpecValidate == Init /\ [][NextValidate]_vars

(* ------------------------------- C11 ---------------------------------- *)

\* C11: the content of the template getResolved(id) returns is the content
\* of the stored template with that id, never the body of an ancestor,
\* however long the chain is.
C11_ResolvedContentIsOwn ==
  (result.op = "getResolved" /\ result.res.success)
    => result.res.data["content"] = templates[result.id]["content"]

\* getResolved returned the end of a chain of three templates whose parent
\* and grandparent have a body other than its own
C11_Witness ==
  /\ result.op = "getResolved" /\ result.res.success
  /\ ChainLength(result.id, NumIds + 1) = 3
  /\ \A a \in Ancestors(result.id) :
        templates[a]["content"] # templates[result.id]["content"]

(* ------------------------------- C12 ---------------------------------- *)

\* what get, list and getResolved return for every id
Answers ==
  [get |-> [id \in MergeIds |-> get(templates, id)],
   list |-> [id \in DOMAIN templates |-> templates[id]],
   getResolved |-> [id \in MergeIds |->
                      getResolved(templates, inheritanceCache, id).res]]

\* C12: list() returns a snapshot: no change the caller makes to the returned
\* array or to a returned template, a change in place of its nested variables
\* list or metadata mapping included, changes what get, list or getResolved
\* return afterwards.
C12_ListReturnsSnapshot ==
  [][result'.op = "mutate" => Answers' = Answers]_vars

(* ------------------------------- C13 ---------------------------------- *)

\* the call of the constructor that was made, when it returned a prompt
Constructed ==
  constructed.op = "constructFromTemplate" /\ constructed.res.success

\* the values the claim lists as falsy: null and undefined (a missing name
\* included), false, 0, the empty string and the empty list
ListedFalsy(value) ==
  \/ value.ty \in {"undefined", "null"}
  \/ value.ty = "boolean" /\ ~value.b
  \/ value.ty = "number" /\ value.n = 0
  \/ value.ty = "string" /\ value.text = <<>>
  \/ value.ty = "array" /\ value.items = <<>>

\* C13: {{#if NAME}}BODY{{/if}} expands to the interpolated BODY when
\* context[NAME] is truthy and to the empty string otherwise, where null,
\* undefined, a missing name, false, 0, '' and [] are falsy and every other
\* value, an empty mapping included, is truthy.
C13_ConditionalByTruthiness ==
  \A body \in Bodies :
    (Constructed /\ constructed.template["content"] = IfBlock("a", body))
      => constructed.res.content =
           IF ListedFalsy(Lookup(constructed.variables, "a")) THEN <<>>
           ELSE interpolateVariables(body, constructed.variables).out

\* a conditional on an empty mapping expanded to its interpolated body
C13_Witness ==
  /\ Constructed
  /\ constructed.template["content"] =
       IfBlock("a", <<Txt("X"), Var("x"), Txt("Y")>>)
  /\ Lookup(constructed.variables, "a") = Obj(EmptyRec)
  /\ constructed.res.content = <<Txt("X"), Txt("V"), Txt("Y")>>

(* ------------------------------- C14 ---------------------------------- *)

\* BODY interpolated for the item at position i of a list, as the claim has
\* it: in the outer context with {{this}} bound to that item (and the
\* index and the two flags of the iteration)
RECURSIVE ItemsInOrder(_, _, _, _)
ItemsInOrder(body, items, i, variables) ==
  IF i > Len(items) THEN <<>>
  ELSE interpolateVariables(
         body,
         [name \in DOMAIN variables \cup {"this", "@index", "@first", "@last"} |->
            CASE name = "this" -> items[i]
              [] name = "@index" -> Num(i - 1)
              [] name = "@first" -> Bool(i = 1)
              [] name = "@last" -> Bool(i = Len(items))
              [] OTHER -> variables[name]]).out
       \o ItemsInOrder(body, items, i + 1, variables)

\* C14: {{#each NAME}}BODY{{/each}} over a list of n elements expands to the
\* n interpolations of BODY, in the order of the list and with nothing
\* between them, the i-th with {{this}} bound to the i-th element, whatever
\* the outer context is, one with a binding named `this` included.
C14_LoopBindsThisToItem ==
  \A body \in Bodies :
    (/\ Constructed
     /\ constructed.template["content"] = EachBlock("a", body)
     /\ Lookup(constructed.variables, "a").ty = "array")
      => constructed.res.content =
           ItemsInOrder(body, Lookup(constructed.variables, "a").items, 1,
                        constructed.variables)

(* ------------------------------- C15 ---------------------------------- *)

\* C15: a switch expands to the interpolated body of the first case whose
\* literal equals the string of context[NAME], and to the empty string when
\* no case does, for every value of NAME: numbers, 0 included, and
\* booleans, false included.
C15_SwitchOnStringOfValue ==
  \A l1 \in Literals, l2 \in Literals :
    LET b1 == <<Txt("X"), Var("x")>>
        b2 == <<Txt("Y")>>
        value == StringOf(Lookup(constructed.variables, "a"))
    IN (/\ Constructed
        /\ constructed.template["content"] =
             SwitchBlock("a", CaseBlock(l1, b1) \o CaseBlock(l2, b2)))
         => constructed.res.content =
              IF value = l1
              THEN interpolateVariables(b1, constructed.variables).out
              ELSE IF value = l2
              THEN interpolateVariables(b2, constructed.variables).out
              ELSE <<>>

(* ------------------------------- C16 ---------------------------------- *)

\* C16: {{#if_equals NAME "LITERAL"}}BODY{{/if_equals}} expands to the
\* interpolated BODY when the string of context[NAME] is LITERAL, character
\* for character, and to the empty string otherwise.
C16_EqualityOnStringOfValue ==
  \A lit \in Literals, body \in Bodies :
    (/\ Constructed
     /\ constructed.template["content"] = IfEqualsBlock("a", lit, body))
      => constructed.res.content =
           IF StringOf(Lookup(constructed.variables, "a")) = lit
           THEN interpolateVariables(body, constructed.variables).out
           ELSE <<>>

\* the number 0 matched the literal "0" and the block expanded to its body
C16_Witness ==
  /\ Constructed
  /\ constructed.template["content"] =
       IfEqualsBlock("a", <<Txt("0")>>, <<Txt("X"), Var("x"), Txt("Y")>>)
  /\ Lookup(constructed.variables, "a") = Num(0)
  /\ constructed.res.content = <<Txt("X"), Txt("V"), Txt("Y")>>

(* ------------------------------- C17 ---------------------------------- *)

\* whether a text has tags of the form {{name}} only
OnlySimple(content) ==
  \A i \in 1..Len(content) : content[i].k \in {"txt", "var"}

\* C17: a reference {{NAME}} whose value is undefined or null stays in the
\* output as the token it is, a warning is logged for it, and
\* constructFromTemplate without validateVariables returns success: no
\* missing variable makes the interpolation fail.
C17_MissingVariableKeepsToken ==
  (constructed.op = "constructFromTemplate" /\ ~constructed.validateVariables)
    => /\ constructed.res.success
       /\ LET content == constructed.template["content"]
          IN OnlySimple(content)
               => \A i \in 1..Len(content) :
                    (/\ content[i].k = "var"
                     /\ Lookup(constructed.variables, content[i].n).ty
                          \in {"undefined", "null"})
                      => /\ content[i] \in Range(constructed.res.content)
                         /\ WarnUndefined(content[i])
                              \in Range(constructed.res.warns)

\* a template whose one reference has no value was constructed
C17_Witness ==
  /\ constructed.op = "constructFromTemplate"
  /\ ~constructed.validateVariables
  /\ constructed.template["content"] = <<Txt("X"), Var("x"), Txt("Y")>>
  /\ "x" \notin DOMAIN constructed.variables
  /\ constructed.res.success
  /\ constructed.res.content = <<Txt("X"), Var("x"), Txt("Y")>>

(* ------------------------------- C18 ---------------------------------- *)

\* the names a body refers to
Referenced(content) ==
  {content[i].n : i \in {j \in 1..Len(content) : content[j].k = "var"}}

\* whether a context provides a name: it has the key, with a value that is
\* neither undefined nor null
Provides(variables, name) ==
  Lookup(variables, name).ty \notin {"undefined", "null"}

RECURSIVE BraceFree(_)
BraceFree(value) ==
  CASE value.ty = "string" -> ~HasBraces(value.text)
    [] value.ty = "array" ->
         \A i \in 1..Len(value.items) : BraceFree(value.items[i])
    [] value.ty = "object" ->
         \A key \in DOMAIN value.map : BraceFree(value.map[key])
    [] OTHER -> TRUE

HasDirective(text) ==
  \E i \in 1..Len(text) : text[i].k \notin {"txt", "var"}

\* C19: directives nest to any depth, directives of one kind included: with
\* a and b truthy {{#if a}}X{{#if b}}Y{{/if}}Z{{/if}} yields XYZ and no tag
\* of a directive is left in the output.
C19_SameKindNests ==
  (/\ Constructed
   /\ constructed.template["content"] = NestedIf
   /\ isTruthy(Lookup(constructed.variables, "a"))
   /\ isTruthy(Lookup(constructed.variables, "b")))
    => /\ constructed.res.content = <<Txt("X"), Txt("Y"), Txt("Z")>>
       /\ ~HasDirective(constructed.res.content)

(* ------------------------------- C20 ---------------------------------- *)

\* the template of the last validation declares this name as required
DeclaredRequired(name) ==
  /\ "variables" \in DOMAIN constructed.template
  /\ \E i \in 1..Len(constructed.template["variables"]) :
       /\ constructed.template["variables"][i].name = name
       /\ constructed.template["variables"][i].required

\* how many declarations of the template of the last validation mark this
\* name as required
RequiredDeclarations(name) ==
  Cardinality({i \in 1..Len(constructed.template["variables"]) :
                 /\ constructed.template["variables"][i].name = name
                 /\ constructed.template["variables"][i].required})

\* how many errors of the last validation mention this name
ErrorsMentioning(name) ==
  Cardinality({i \in 1..Len(constructed.res.errors) :
                 constructed.res.errors[i].name = name})

\* C20: when a variable the template declares as required is absent from
\* the context or null, validateContext returns exactly one error that
\* mentions its name, and valid is false, for every template: one supplied
\* directly and one getResolved returned for an inheritance chain.
C20_OneErrorPerMissingRequired ==
  \A name \in {"x", "y"} :
    (/\ constructed.op = "validateContext"
     /\ DeclaredRequired(name)
     /\ ~Provides(constructed.variables, name))
      => /\ ErrorsMentioning(name) = 1
         /\ ~constructed.res.valid

\* C20, amended: when a variable the template declares as required is
\* absent from the context or null, validateContext returns one error that
\* mentions its name for every declaration that marks it required (exactly
\* one when it is declared once), and valid is false, for every template:
\* one supplied directly and one getResolved returned for a chain.
C20_OneErrorPerRequiredDeclaration ==
  \A name \in {"x", "y"} :
    (/\ constructed.op = "validateContext"
     /\ DeclaredRequired(name)
     /\ ~Provides(constructed.variables, name))
      => /\ ErrorsMentioning(name) = RequiredDeclarations(name)
         /\ ~constructed.res.valid

\* a context without x was validated against the template getResolved
\* returned for a chain in which parent and child declare x as required
C20_Witness ==
  /\ constructed.op = "validateContext"
  /\ constructed.from = "getResolved"
  /\ "x" \notin DOMAIN constructed.variables
  /\ DeclaredRequired("x")
  /\ RequiredDeclarations("x") = 2
  /\ ErrorsMentioning("x") = 2
  /\ ~constructed.res.valid

(* ------------------------------- C21 ---------------------------------- *)

\* the keys of the context of the last validation that no declaration of
\* its template names
UndeclaredKeys ==
  {name \in DOMAIN constructed.variables :
     \A i \in 1..Len(VariablesOf(constructed.template)) :
       VariablesOf(constructed.template)[i].name # name}

\* how many warnings of the last validation mention this name
WarningsMentioning(name) ==
  Cardinality({i \in 1..Len(constructed.res.warnings) :
                 constructed.res.warnings[i].name = name})

\* C21: for every template, one without a variables list included,
\* validateContext returns exactly one warning for each key of the context
\* that is not among the declared variables of the template, and valid is
\* false only when there is an error.
C21_OneWarningPerUndeclaredKey ==
  constructed.op = "validateContext"
    => /\ \A name \in UndeclaredKeys : WarningsMentioning(name) = 1
       /\ constructed.res.valid = (Len(constructed.res.errors) = 0)

(* ------------------------------- C22 ---------------------------------- *)

\* the kinds a variable can be declared with
Kinds == {"string", "number", "boolean", "array", "object"}

\* templates that declare the one variable x, of every kind
KindInputs ==
  {[id |-> 1, name |-> 1, content |-> 1,
    variables |-> <<VariableSpec("x", type, required)>>] :
     type \in Kinds, required \in BOOLEAN}

\* contexts that give x a value of every structural type, or none
KindContexts == Opt("x", PlainValues)

\* one validation of a context against a template that declares x
NextKinds ==
  \E template \in KindInputs, variables \in KindContexts :
    ValidateContext(template, variables)

SpecKinds == Init /\ [][NextKinds]_vars

\* the errors of the last validation that report a mismatch of types
TypeErrors ==
  {i \in 1..Len(constructed.res.errors) :
     /\ constructed.res.errors[i].type = "semantic"
     /\ constructed.res.errors[i].name = "x"}

\* C22: for a value that is present and not null, validateContext reports
\* a type mismatch iff the structural type of the value differs from the
\* declared kind, where a variable declared as object accepts a list as
\* well as a mapping.
C22_MismatchIffTypeDiffers ==
  (/\ constructed.op = "validateContext"
   /\ Provides(constructed.variables, "x"))
    => LET kind == constructed.template["variables"][1].type
           value == constructed.variables["x"]
           accepted == IF kind = "object" THEN value.ty \in {"object", "array"}
                       ELSE value.ty = kind
       IN (TypeErrors # {}) <=> ~accepted

(* ------------------- XmlTemplateParser: validate ---------------------- *)

\* an entry of the errors or of the warnings of validate: about says which
\* of its messages it is, name is the name of the variable the message
\* quotes, and token the reference it quotes (idle otherwise)
ParserFinding(type, about, name, token) ==
  [type |-> type, about |-> about, name |-> name, token |-> token]

\* extractVariableReferences(content): what stands between {{ and }}, once
\* for every distinct tag, in the order of the first occurrences
RECURSIVE extractVariableReferences(_, _)
extractVariableReferences(content, seen) ==
  IF Len(content) = 0 THEN <<>>
  ELSE IF Head(content).k = "txt" \/ Head(content) \in seen
  THEN extractVariableReferences(Tail(content), seen)
  ELSE <<Head(content)>>
       \o extractVariableReferences(Tail(content), seen \cup {Head(content)})

\* the errors validate adds for the declared variables; an empty string
\* stands for a name or a type that is empty or missing
RECURSIVE DeclarationErrors(_, _)
DeclarationErrors(declared, i) ==
  IF i > Len(declared) THEN <<>>
  ELSE (IF declared[i].name = ""
        THEN <<ParserFinding("semantic", "variable.name", "", Txt(""))>>
        ELSE <<>>)
       \o (IF declared[i].type = ""
           THEN <<ParserFinding("semantic", "variable.type", declared[i].name,
                                Txt(""))>>
           ELSE <<>>)
       \o DeclarationErrors(declared, i + 1)

\* the warnings validate adds for the references no declaration names
ReferenceWarnings(refs, declared) ==
  LET undeclared ==
        SelectSeq(refs, LAMBDA ref :
          ~(/\ ref.k = "var"
            /\ \E i \in 1..Len(declared) : declared[i].name = ref.n))
  IN [i \in 1..Len(undeclared) |->
        ParserFinding("missing_variable", "reference", "", undeclared[i])]

\* validate(template): the data of the result, or throws for the TypeError
\* of template.content.matchAll when the template has no content
validate(template) ==
  LET required(key) ==
        IF GetOr(template, key, 0) = 0
        THEN <<ParserFinding("semantic", key, "", Txt(""))>> ELSE <<>>
      content ==
        IF "content" \notin DOMAIN template \/ template["content"] = <<>>
        THEN <<ParserFinding("semantic", "content", "", Txt(""))>> ELSE <<>>
      errors == required("id") \o required("name") \o content
                \o DeclarationErrors(VariablesOf(template), 1)
      inheritance ==
        IF GetOr(template, "extends", 0) # 0
        THEN <<ParserFinding("semantic", "extends", "", Txt(""))>> ELSE <<>>
  IN IF "content" \notin DOMAIN template
     THEN [throws |-> TRUE, valid |-> FALSE, errors |-> <<>>, warnings |-> <<>>]
     ELSE [throws |-> FALSE,
           valid |-> Len(errors) = 0,
           errors |-> errors,
           warnings |->
             inheritance
             \o ReferenceWarnings(
                  extractVariableReferences(template["content"], {}),
                  VariablesOf(template))]

\* the declarations of the templates that are validated: a name that is
\* empty or not, and a type that is empty, recognized or not recognized
DeclaredSpecs ==
  {VariableSpec(name, type, FALSE) :
     name \in {"", "x"}, type \in {"", "string", "integer"}}

\* templates handed to the two validations: id, name and content are
\* missing, empty or present
StructureInputs ==
  {i @@ n @@ c @@ v @@ e :
     i \in Opt("id", {0, 1}), n \in Opt("name", {0, 1}),
     c \in Opt("content", {<<>>, <<Txt("X"), Var("x")>>,
                           IfBlock("a", <<Var("y"), Var("y")>>)}),
     v \in Opt("variables",
               UNION {[1..k -> DeclaredSpecs] : k \in 0..(MaxVars + 1)}),
     e \in Opt("extends", {1})}

\* a template and a context that are about to be validated
PendingValidation(template, variables) ==
  [op |-> "toValidate", template |-> template, variables |-> variables]

InitStructure ==
  /\ templates = EmptyRec
  /\ inheritanceCache = EmptyRec
  /\ result = Outcome("none", 0, 0, Success(EmptyRec))
  /\ listed = EmptyRec
  /\ constructed \in
       {PendingValidation(template, variables) :
          template \in StructureInputs,
          variables \in Opt("x", {Str(<<Txt("V")>>)})}

\* parser.validate(template)
Validate ==
  /\ constructed.op = "toValidate"
  /\ constructed' =
       [op |-> "validate", template |-> constructed.template,
        variables |-> constructed.variables,
        res |-> validate(constructed.template)]
  /\ UNCHANGED <<templates, inheritanceCache, result, listed>>

\* constructor.validateContext(template, context) for the same template
ValidatePendingContext ==
  /\ constructed.op = "toValidate"
  /\ constructed' =
       [op |-> "validateContext", from |-> "caller",
        template |-> constructed.template,
        variables |-> constructed.variables,
        res |-> [throws |-> FALSE]
                @@ validateContext(constructed.template, constructed.variables)]
  /\ UNCHANGED <<templates, inheritanceCache, result, listed>>

NextStructure == Validate \/ ValidatePendingContext

SpecStructure == InitStructure /\ [][NextStructure]_vars

(* ------------------------------- C23 ---------------------------------- *)

\* C23: validation never raises: for every template, one whose id, name or
\* content is missing or empty included, validate(template) of the parser
\* and validateContext(template, context) both complete with a result
\* whose valid flag is true iff its list of errors is empty.
C23_ValidationNeverRaises ==
  constructed.op \in {"validate", "validateContext"}
    => /\ ~constructed.res.throws
       /\ constructed.res.valid = (Len(constructed.res.errors) = 0)

(* ------------------------------- C24 ---------------------------------- *)

\* validate returned an error of this kind that quotes this variable name
ReportsDeclaration(about, name) ==
  \E i \in 1..Len(constructed.res.errors) :
    /\ constructed.res.errors[i].about = about
    /\ constructed.res.errors[i].name = name

\* C24: validate(template) of the parser reports an error for every
\* declared variable whose name is empty and for every declared variable
\* whose kind is not one of string, number, boolean, array, object, so
\* valid is false whenever a declared variable has an unrecognized kind.
C24_UnrecognizedKindIsAnError ==
  (constructed.op = "validate" /\ ~constructed.res.throws)
    => \A i \in 1..Len(VariablesOf(constructed.template)) :
         LET variable == VariablesOf(constructed.template)[i]
         IN /\ variable.name = "" => ReportsDeclaration("variable.name", "")
            /\ variable.type \notin Kinds
                 => /\ ReportsDeclaration("variable.type", variable.name)
                    /\ ~constructed.res.valid

(* ------------------- XmlTemplateParser: parse ------------------------- *)

\* a document as the sequence of its pieces: `<tag` (open), `</tag`
\* (close), ` key="val"` (attr, val 0 for key=""), `>` (gt), a text with no
\* markup in it (text) and `<![CDATA[val]]>` (cdata, val 0 when empty)
Piece(p, key, val) == [p |-> p, key |-> key, val |-> val]
OpenTag(tag) == Piece("open", tag, 0)
CloseTag(tag) == Piece("close", tag, 0)
Attr(key, val) == Piece("attr", key, val)
Gt == Piece("gt", "", 0)
Text(val) == Piece("text", "", val)
CData(val) == Piece("cdata", "", val)

\* the position of the first `>` after position i, or 0; a CDATA section
\* ends with one
RECURSIVE FirstGt(_, _)
FirstGt(text, i) ==
  IF i >= Len(text) THEN 0
  ELSE IF text[i + 1].p \in {"gt", "cdata"} THEN i + 1
  ELSE FirstGt(text, i + 1)

\* content.match(/<prompt_template([^>]*)>/): the positions of the first
\* `<prompt_template` and of the first `>` after it, or <<0, 0>>
RootMatch(text) ==
  LET starts == {i \in 1..Len(text) :
                   /\ text[i] = OpenTag("prompt_template")
                   /\ FirstGt(text, i) # 0}
  IN IF starts = {} THEN <<0, 0>>
     ELSE LET i == CHOOSE k \in starts : \A m \in starts : k <= m
          IN <<i, FirstGt(text, i)>>

\* parseAttributes(attributeString)[key] for the pieces from..to: the value
\* of the last key="val" with a val that is not empty, or 0 (undefined)
RECURSIVE parseAttributes(_, _, _, _)
parseAttributes(text, from, to, key) ==
  IF to < from THEN 0
  ELSE IF text[to].p = "attr" /\ text[to].key = key /\ text[to].val # 0
  THEN text[to].val
  ELSE parseAttributes(text, from, to - 1, key)

\* the two regular expressions for <content>: the CDATA form first, then
\* what stands between <content> and the first </content>; 0 is ''.  The
\* documents have one piece inside <content> at most.
ContentMatch(text) ==
  LET opens == {i \in 1..(Len(text) - 1) :
                  text[i] = OpenTag("content") /\ text[i + 1] = Gt}
      closes(i) == {j \in (i + 2)..(Len(text) - 1) :
                      text[j] = CloseTag("content") /\ text[j + 1] = Gt}
      cdata == {i \in opens : /\ i + 3 \in closes(i)
                              /\ text[i + 2].p = "cdata"}
      simple == {i \in opens : closes(i) # {}}
      first(S) == CHOOSE k \in S : \A m \in S : k <= m
  IN IF cdata # {} THEN text[first(cdata) + 2].val
     ELSE IF simple = {} THEN 0
     ELSE LET i == first(simple)
              j == first(closes(i))
          IN IF j = i + 2 THEN 0 ELSE text[i + 2].val

\* what the regular expressions of parseXmlContent find in a document
Scan(text) ==
  LET root == RootMatch(text)
      attribute(key) ==
        IF root[1] = 0 THEN 0
        ELSE parseAttributes(text, root[1] + 1, root[2] - 1, key)
  IN [root |-> root[1] # 0, id |-> attribute("id"), name |-> attribute("name"),
      extends |-> 0, variables |-> <<>>, contextLoading |-> 0,
      taskDefinition |-> 0, thinkingLevel |-> 0,
      content |-> ContentMatch(text), metadata |-> 0]

\* parse(content, format); format "" stands for no format
parse(text, format) ==
  LET parsed == parseXmlContent(Scan(text))
  IN IF format \notin {"", "xml"}
     THEN Failure("UnsupportedFormat", <<>>)
     ELSE IF parsed.throws THEN Failure("MissingRequiredFields", <<>>)
     ELSE Success([template |-> parsed.template, format |-> "xml",
                   raw |-> text])

\* documents: the root tag is there or not, terminated or not and closed
\* or not; id and name are missing, empty or given; and <content> is
\* missing, empty, a text, a CDATA section, or not closed
DocTexts ==
  {open \o id \o name \o gt \o content \o close :
     open \in {<<>>, <<OpenTag("prompt_template")>>},
     id \in {<<>>, <<Attr("id", 0)>>, <<Attr("id", 1)>>},
     name \in {<<>>, <<Attr("name", 0)>>, <<Attr("name", 1)>>},
     gt \in {<<>>, <<Gt>>},
     content \in
       {<<>>,
        <<OpenTag("content"), Gt, CloseTag("content"), Gt>>,
        <<OpenTag("content"), Gt, Text(1), CloseTag("content"), Gt>>,
        <<OpenTag("content"), Gt, CData(1), CloseTag("content"), Gt>>,
        <<OpenTag("content"), Gt, CData(0), CloseTag("content"), Gt>>,
        <<OpenTag("content"), Gt, Text(1)>>},
     close \in {<<>>, <<CloseTag("prompt_template"), Gt>>}}

InitParse ==
  /\ templates = EmptyRec
  /\ inheritanceCache = EmptyRec
  /\ result = Outcome("none", 0, 0, Success(EmptyRec))
  /\ listed = EmptyRec
  /\ constructed \in
       {[op |-> "toParse", text |-> text, format |-> format] :
          text \in DocTexts, format \in {"", "xml", "json"}}

\* parser.parse(content, format)
Parse ==
  /\ constructed.op = "toParse"
  /\ constructed' =
       [op |-> "parse", text |-> constructed.text,
        format |-> constructed.format,
        res |-> parse(constructed.text, constructed.format)]
  /\ UNCHANGED <<templates, inheritanceCache, result, listed>>

SpecParse == InitParse /\ [][Parse]_vars

(* ------------------------------- C25 ---------------------------------- *)

\* the root element of a document is well formed: the document begins with
\* `<prompt_template`, whose attributes are followed by `>`, and ends with
\* `</prompt_template>`
RootWellFormed(text) ==
  /\ Len(text) >= 4
  /\ text[1] = OpenTag("prompt_template")
  /\ \E j \in 2..Len(text) :
       /\ text[j] = Gt
       /\ \A i \in 2..(j - 1) : text[i].p = "attr"
  /\ text[Len(text) - 1] = CloseTag("prompt_template")
  /\ text[Len(text)] = Gt

\* C25: parse(rawText) returns a failure, never a template, whenever the
\* root element is unbalanced or unterminated and whenever the extracted
\* id, name or content is empty; it returns a template only for a document
\* with a well-formed root and an id, a name and a content that are not
\* empty.
C25_ParseFailsOnMalformedRoot ==
  (constructed.op = "parse" /\ constructed.res.success)
    => /\ RootWellFormed(constructed.text)
       /\ GetOr(constructed.res.data.template, "id", 0) # 0
       /\ GetOr(constructed.res.data.template, "name", 0) # 0
       /\ constructed.res.data.template["content"] # 0

(* ------------------------------- C26 ---------------------------------- *)

RECURSIVE ReferenceAt(_, _, _)
RECURSIVE ReferenceBlocks(_, _, _, _)
RECURSIVE ReferenceItems(_, _, _, _, _)
RECURSIVE ReferenceCase(_, _, _, _)

\* the loop over the items of a list, in the engine whose stages run in
\* the order conditional, loop, equality conditional, switch, simple
ReferenceItems(template, array, index, variables, fuel) ==
  IF index > Len(array) THEN Yield(<<>>, <<>>, FALSE)
  ELSE LET itemContext ==
             ("this" :> array[index])
             @@ ("@index" :> Num(index - 1))
             @@ ("@first" :> Bool(index = 1))
             @@ ("@last" :> Bool(index = Len(array)))
             @@ variables
           item == ReferenceAt(template, itemContext, fuel)
           rest == ReferenceItems(template, array, index + 1, variables, fuel)
       IN Yield(item.out \o rest.out, item.warns \o rest.warns,
                item.throws \/ rest.throws)

\* the loop over the cases of a switch, in that engine
ReferenceCase(switchContent, value, variables, fuel) ==
  LET i == FirstIndex(switchContent, 1, "case")
      j == IF i = 0 THEN 0 ELSE FirstIndex(switchContent, i + 1, "/case")
  IN IF i = 0 \/ j = 0 THEN Yield(<<>>, <<>>, FALSE)
     ELSE IF value = switchContent[i].lit
     THEN ReferenceAt(SubSeq(switchContent, i + 1, j - 1), variables, fuel)
     ELSE ReferenceCase(SubSeq(switchContent, j + 1, Len(switchContent)),
                        value, variables, fuel)

\* the replacement of one block, in that engine
ReferenceReplacement(open, inner, variables, fuel) ==
  LET value == Lookup(variables, open.n)
  IN CASE open.k = "if" ->
            IF isTruthy(value) THEN ReferenceAt(inner, variables, fuel)
            ELSE Yield(<<>>, <<>>, FALSE)
       [] open.k = "each" ->
            IF value.ty # "array"
            THEN Yield(<<>>, <<WarnNotArray(open)>>, FALSE)
            ELSE ReferenceItems(inner, value.items, 1, variables, fuel)
       [] open.k = "if_equals" ->
            IF StringOf(value) = open.lit
            THEN ReferenceAt(inner, variables, fuel)
            ELSE Yield(<<>>, <<>>, FALSE)
       [] open.k = "switch" ->
            ReferenceCase(inner, StringOf(OrEmptyString(value)), variables,
                          fuel)

\* one block stage over the whole text, in that engine
ReferenceBlocks(k, content, variables, fuel) ==
  LET i == FirstIndex(content, 1, k)
      j == IF i = 0 THEN 0 ELSE FirstIndex(content, i + 1, Closing(k))
  IN IF i = 0 \/ j = 0 THEN Yield(content, <<>>, FALSE)
     ELSE LET r == ReferenceReplacement(content[i],
                                        SubSeq(content, i + 1, j - 1),
                                        variables, fuel)
              rest == ReferenceBlocks(k, SubSeq(content, j + 1, Len(content)),
                                      variables, fuel)
          IN Yield(SubSeq(content, 1, i - 1) \o r.out \o rest.out,
                   r.warns \o rest.warns, r.throws \/ rest.throws)

\* the engine that runs the stages of interpolateVariables in the order
\* conditional, loop, equality conditional, switch, simple substitution
ReferenceAt(content, variables, fuel) ==
  IF fuel = 0 THEN Yield(<<>>, <<>>, TRUE)
  ELSE LET s1 == ReferenceBlocks("if", content, variables, fuel - 1)
           s2 == ReferenceBlocks("each", s1.out, variables, fuel - 1)
           s3 == ReferenceBlocks("if_equals", s2.out, variables, fuel - 1)
           s4 == ReferenceBlocks("switch", s3.out, variables, fuel - 1)
           s5 == SimplePass(s4.out, variables)
       IN Yield(s5.out,
                s1.warns \o s2.warns \o s3.warns \o s4.warns \o s5.warns,
                s1.throws \/ s2.throws \/ s3.throws \/ s4.throws)

\* C26: the stages of the interpolation run in the order conditional,
\* loop, equality conditional, switch, simple substitution last, each over
\* the whole remaining text: for every body and context the output and
\* the warnings are those of the engine that runs the stages in that order.
C26_StagesInDocumentedOrder ==
  Constructed
    => LET reference == ReferenceAt(constructed.template["content"],
                                    constructed.variables, MaxDepth)
       IN /\ constructed.res.content = reference.out
          /\ constructed.res.warns = reference.warns

(* ------------------------------- C27 ---------------------------------- *)

\* the names the warnings of the last construction say are undefined
WarnedNames ==
  {constructed.res.warns[i].of.n :
     i \in {j \in 1..Len(constructed.res.warns) :
              /\ constructed.res.warns[j].kind = "undefined"
              /\ constructed.res.warns[j].of.k = "var"}}

\* C27: when context[NAME] is falsy, the BODY of {{#if NAME}}BODY{{/if}}
\* is not evaluated: nothing inside it is looked up or expanded, and no
\* warning is logged for an undefined variable that only the dropped BODY
\* refers to.
C27_DroppedBodyNotEvaluated ==
  \A body \in Bodies :
    (/\ Constructed
     /\ constructed.template["content"] = IfBlock("a", body)
     /\ ListedFalsy(Lookup(constructed.variables, "a")))
      => /\ constructed.res.content = <<>>
         /\ WarnedNames = {}

(* ------------------------------- C28 ---------------------------------- *)

\* the names a conditional inside a loop tests: the bindings of the
\* iteration and a name of the outer context
ScopeNames == {"this", "@first", "@last", "b"}

\* {{#each a}}{{#if NAME}}K{{/if}};{{/each}}
LoopContents ==
  {EachBlock("a", IfBlock(name, <<Txt("K")>>) \o <<Txt(";")>>) :
     name \in ScopeNames}

\* the lists the loop runs over, with and without an outer `this` and `b`
LoopContexts ==
  {a @@ b @@ t :
     a \in {"a" :> Arr(items) :
              items \in UNION {[1..n -> {Bool(TRUE), Bool(FALSE),
                                         Str(<<Txt("P")>>)}] : n \in 0..2}},
     b \in Opt("b", {Bool(TRUE)}),
     t \in Opt("this", {Str(<<Txt("T")>>)})}

\* an empty registry and one call of constructFromTemplate for a loop with
\* a conditional in its body
InitLoop ==
  /\ templates = EmptyRec
  /\ inheritanceCache = EmptyRec
  /\ result = Outcome("none", 0, 0, Success(EmptyRec))
  /\ listed = EmptyRec
  /\ constructed \in
       {Pending([id |-> 1, name |-> 1, content |-> content], variables, FALSE) :
          content \in LoopContents, variables \in LoopContexts}

SpecLoop == InitLoop /\ [][NextConstruct]_vars

\* the value of a name in the scope of the iteration over the item at
\* position i: the outer context plus the item and the flags
InScope(name, items, i) ==
  CASE name = "this" -> items[i]
    [] name = "@first" -> Bool(i = 1)
    [] name = "@last" -> Bool(i = Len(items))
    [] OTHER -> Lookup(constructed.variables, name)

\* the output of the loop when the conditional on `name` is decided for
\* each item in the scope of its iteration, from position i on
RECURSIVE DecidedPerElement(_, _, _)
DecidedPerElement(name, items, i) ==
  IF i > Len(items) THEN <<>>
  ELSE (IF ListedFalsy(InScope(name, items, i)) THEN <<>> ELSE <<Txt("K")>>)
       \o <<Txt(";")>> \o DecidedPerElement(name, items, i + 1)

\* C28: every directive inside the BODY of a loop is evaluated once per
\* element in the scope of that iteration (the outer context plus the
\* item, the index and the flags of the first and of the last element): a
\* conditional on the first-element flag keeps its body for the first
\* element only, and a conditional on the item is decided per element.
C28_LoopBodyDirectivesPerElement ==
  \A name \in ScopeNames :
    (/\ Constructed
     /\ constructed.template["content"] =
          EachBlock("a", IfBlock(name, <<Txt("K")>>) \o <<Txt(";")>>))
      => constructed.res.content =
           DecidedPerElement(name, constructed.variables["a"].items, 1)

(* ------------------------------- C29 ---------------------------------- *)

\* how many stored templates the while loop of checkCircularInheritance
\* reads on its walk from currentId
RECURSIVE CircularVisits(_, _, _, _)
CircularVisits(tmpl, templateId, currentId, visited) ==
  IF \/ currentId = 0
     \/ currentId \in visited
     \/ currentId = templateId
     \/ currentId \notin DOMAIN tmpl
  THEN 0
  ELSE 1 + CircularVisits(tmpl, templateId,
                          GetOr(tmpl[currentId], "extends", 0),
                          visited \cup {currentId})

\* how many stored templates the recursion of getResolved reads on its way
\* up from id; a walk that is cut off after `fuel` calls counts one more
RECURSIVE ResolveVisits(_, _, _, _)
ResolveVisits(tmpl, cache, id, fuel) ==
  IF fuel = 0 THEN 1
  ELSE IF id \in DOMAIN cache \/ id \notin DOMAIN tmpl THEN 0
  ELSE IF GetOr(tmpl[id], "extends", 0) = 0 THEN 1
  ELSE 1 + ResolveVisits(tmpl, cache, GetOr(tmpl[id], "extends", 0), fuel - 1)

\* how many calls of clearInheritanceCache a call for templateId makes for
\* stored templates; a recursion that is cut off after `fuel` calls counts
\* one more
RECURSIVE ClearVisits(_, _, _)
ClearVisits(tmpl, templateId, fuel) ==
  LET RECURSIVE Sum(_)
      Sum(deps) ==
        IF deps = {} THEN 0
        ELSE LET d == CHOOSE x \in deps : \A y \in deps : x <= y
             IN ClearVisits(tmpl, d, fuel - 1) + Sum(deps \ {d})
  IN IF fuel = 0 THEN 1
     ELSE (IF templateId \in DOMAIN tmpl THEN 1 ELSE 0)
          + Sum(findDependentTemplates(tmpl, templateId))

\* C29: in every state of the registry that calls of register and remove,
\* made one at a time, lead to, each walk of a chain terminates after it
\* has visited as many templates as are stored, at most: the walk of the
\* cycle check of register up the parents, the recursion of getResolved up
\* the parents, and the recursion of the cache invalidation down the
\* dependents.
C29_ChainWalksTerminate ==
  LET stored == Cardinality(DOMAIN templates)
  IN \A id \in Ids :
       /\ \A parentId \in Ids :
            CircularVisits(templates, id, parentId, {}) <= stored
       /\ ResolveVisits(templates, inheritanceCache, id, stored + 1) <= stored
       /\ ResolveVisits(templates, EmptyRec, id, stored + 1) <= stored
       /\ ClearVisits(templates, id, stored + 1) <= stored

\* a chain as long as the registry was resolved: the walk from its last
\* template with an empty cache reads every stored template, and the
\* invalidation from its first template reaches every stored template
C29_Witness ==
  /\ Cardinality(DOMAIN templates) = NumIds
  /\ result.op = "getResolved"
  /\ result.res.success
  /\ \E id \in Ids :
       /\ result.id = id
       /\ ResolveVisits(templates, EmptyRec, id, NumIds + 1) = NumIds
  /\ \E id \in Ids : ClearVisits(templates, id, NumIds + 1) = NumIds
  /\ \E id \in Ids, parentId \in Ids :
       CircularVisits(templates, id, parentId, {}) = NumIds - 1

(* ------------- getResolved, one await point at a time ----------------- *)

\* a call of getResolved that is suspended: the id it resolves, the result
\* of get(id) it read before it suspended, and where it waits: "got" at
\* `await this.get(id)`, "parent" at `await this.getResolved(extends)`
Frame(id, base, pc) == [id |-> id, base |-> base, pc |-> pc]

\* a getResolved(id) in flight: the suspended calls, the outermost first,
\* and the result the innermost call that returned has handed to the call
\* that awaits it (or to the caller when no call is left)
InFlight(id, stack, returned, ret) ==
  [op |-> "getResolved", id |-> id, stack |-> stack, returned |-> returned,
   ret |-> ret]

\* what a call of getResolved(id) does before it suspends: it returns the
\* entry of the cache, or it calls get(id), which reads the stored
\* template, and awaits the result
Invoke(tmpl, cache, id) ==
  IF id \in DOMAIN cache
  THEN [returned |-> TRUE, ret |-> Success(cache[id]), frames |-> <<>>]
  ELSE [returned |-> FALSE, ret |-> Success(EmptyRec),
        frames |-> <<Frame(id, get(tmpl, id), "got")>>]

\* no getResolved is suspended
Settled ==
  IF constructed.op = "none" THEN TRUE ELSE constructed.stack = <<>>

\* a caller calls getResolved(id) and goes on without waiting for it
StartResolve(id) ==
  LET call == Invoke(templates, inheritanceCache, id)
  IN /\ Settled
     /\ constructed' = InFlight(id, call.frames, call.returned, call.ret)
     /\ UNCHANGED <<templates, inheritanceCache, result, listed>>

\* the innermost suspended call of getResolved runs to its next await or to
\* its return
ResumeResolve ==
  /\ constructed.op = "getResolved"
  /\ constructed.stack # <<>>
  /\ LET n == Len(constructed.stack)
         top == constructed.stack[n]
         below == SubSeq(constructed.stack, 1, n - 1)
         ext == GetOr(top.base.data, "extends", 0)
         call == Invoke(templates, inheritanceCache, ext)
         merged == mergeTemplates(constructed.ret.data, top.base.data)
     IN CASE top.pc = "got" /\ ~top.base.success ->
               /\ constructed' = InFlight(constructed.id, below, TRUE, top.base)
               /\ UNCHANGED inheritanceCache
          [] top.pc = "got" /\ top.base.success /\ ext # 0 ->
               /\ constructed' =
                    InFlight(constructed.id,
                             below \o <<Frame(top.id, top.base, "parent")>>
                                   \o call.frames,
                             call.returned, call.ret)
               /\ UNCHANGED inheritanceCache
          [] top.pc = "got" /\ top.base.success /\ ext = 0 ->
               /\ inheritanceCache' =
                    MapSet(inheritanceCache, top.id, top.base.data)
               /\ constructed' = InFlight(constructed.id, below, TRUE,
                                          Success(top.base.data))
          [] top.pc = "parent" /\ ~constructed.ret.success ->
               /\ constructed' =
                    InFlight(constructed.id, below, TRUE,
                             Failure("ResolveParentFailed",
                                     <<ext, top.id>> \o constructed.ret.names))
               /\ UNCHANGED inheritanceCache
          [] top.pc = "parent" /\ constructed.ret.success ->
               /\ inheritanceCache' = MapSet(inheritanceCache, top.id, merged)
               /\ constructed' = InFlight(constructed.id, below, TRUE,
                                          Success(merged))
  /\ UNCHANGED <<templates, result, listed>>

\* a chain in which only the first template, which has no parent, comes in
\* several versions: they differ in the variable they declare
ChainInputs ==
  UNION {{[id |-> i, name |-> 1, content |-> 1, variables |-> v] @@ e :
            v \in (IF i = 1 THEN {<<n>> : n \in 1..NumVarNames} ELSE {<<>>}),
            e \in (IF i = 1 THEN {EmptyRec} ELSE {"extends" :> (i - 1)})} :
           i \in Ids}

\* calls of register, which for a template without a parent has no await,
\* run between the steps of a getResolved that is in flight
NextInterleaved ==
  \/ \E template \in ChainInputs : Register(template)
  \/ \E id \in Ids : StartResolve(id)
  \/ ResumeResolve

SpecInterleaved == Init /\ [][NextInterleaved]_vars

(* ------------------------------- C30 ---------------------------------- *)

\* C30: when a register that replaces P runs at an await point of a
\* getResolved(C) in flight, C extending P, no entry for C merged from the
\* replaced P is left in the cache: once both calls have completed, the
\* entry of C is the merge with the P that is stored, which is what
\* getResolved(C) returns.
C30_NoStaleEntryAfterInterleaving ==
  Settled
    => \A c \in DOMAIN inheritanceCache :
         (c \in DOMAIN templates /\ ExtendsOf(c) # 0)
           => inheritanceCache[c] =
                mergeTemplates(
                  getResolved(templates, EmptyRec, ExtendsOf(c)).res.data,
                  templates[c])

====
